---- MODULE Spec2Model ----
(***************************************************************************)
(* Model of the open_sensor_platform ingestion server: the tick codec      *)
(* (NewTick, json.Marshal of a Tick), the Redis structures the server      *)
(* keeps (per-sensor sorted set of ticks, sensor->controller hash, set of  *)
(* controllers, per-controller set of sensors), the ingestion pipeline     *)
(* (ProcessTicks / processTick, one goroutine per connection, one step per *)
(* Redis command), the read loop of a connection, the readers FindTicks,   *)
(* findTicksByRange and findTicksByScore, the directory of controllers and *)
(* the operational log.                                                    *)
(*                                                                         *)
(* Text is a sequence of one-character strings, so that slicing, splitting *)
(* and parsing are computed the way the Go code computes them.             *)
(***************************************************************************)
EXTENDS Integers, Sequences, FiniteSets, TLC

(***************************************************************************)
(* Text helpers (Go strings / strconv).                                    *)
(***************************************************************************)
Digits == <<"0", "1", "2", "3", "4", "5", "6", "7", "8", "9">>

IsDigit(ch) == \E k \in 1..10 : Digits[k] = ch

DigitVal(ch) == (CHOOSE k \in 1..10 : Digits[k] = ch) - 1

\* isDigit(s, i) of package time: index i (0-based) exists and is a digit.
IsDigitAt(s, i) == i + 1 <= Len(s) /\ IsDigit(s[i + 1])

AllDigits(s) == \A k \in 1..Len(s) : IsDigit(s[k])

RECURSIVE DecVal(_)
DecVal(s) ==
    IF Len(s) = 0 THEN 0
    ELSE 10 * DecVal(SubSeq(s, 1, Len(s) - 1)) + DigitVal(s[Len(s)])

RECURSIVE NatText(_)
NatText(n) ==
    IF n < 10 THEN <<Digits[n + 1]>>
    ELSE NatText(n \div 10) \o <<Digits[(n % 10) + 1]>>

\* fmt.Sprintf("%d", n) and redigo's formatting of an int64 argument.
FormatInt(n) == IF n < 0 THEN <<"-">> \o NatText(-n) ELSE NatText(n)

RECURSIVE PadLeft(_, _)
PadLeft(s, width) == IF Len(s) >= width THEN s ELSE PadLeft(<<"0">> \o s, width)

Drop(s, n) == SubSeq(s, n + 1, Len(s))

\* strings.Split(s, sep) for a one-character separator: k separators give
\* k+1 fields, empty ones included.
RECURSIVE Split(_, _)
Split(s, sep) ==
    IF \A k \in 1..Len(s) : s[k] # sep THEN <<s>>
    ELSE LET k == CHOOSE j \in 1..Len(s) :
                     s[j] = sep /\ \A h \in 1..(j - 1) : s[h] # sep
         IN  <<SubSeq(s, 1, k - 1)>> \o Split(Drop(s, k), sep)

\* strings.Replace(s, old, new, -1) for one-character old and new.
\* A replacement that replaces nothing.
Replace_keep(s, old, new) == s

Replace(s, old, new) == [k \in 1..Len(s) |-> IF s[k] = old THEN new ELSE s[k]]

RECURSIVE Join(_, _)
Join(parts, sep) ==
    IF Len(parts) = 0 THEN <<>>
    ELSE IF Len(parts) = 1 THEN parts[1]
    ELSE parts[1] \o sep \o Join(Tail(parts), sep)

\* strconv.ParseInt(s, 10, 64): optional sign, at least one digit, digits only.
\* Every numeral of the model is a few digits long, so the int64 range error
\* of ParseInt cannot arise and is not modelled.
ParseInt(s) ==
    LET signed == Len(s) > 0 /\ s[1] \in {"+", "-"}
        body   == IF signed THEN Tail(s) ELSE s
        neg    == signed /\ s[1] = "-"
    IN  IF Len(body) = 0 \/ ~AllDigits(body) THEN [ok |-> FALSE, val |-> 0]
        ELSE [ok |-> TRUE, val |-> IF neg THEN 0 - DecVal(body) ELSE DecVal(body)]

(***************************************************************************)
(* time.Parse("2006-1-2 15:4:5", value) and time.Time.                     *)
(***************************************************************************)
\* getnum(s, false) of package time: one digit, or two when the second
\* character is a digit too.
GetNum(s) ==
    IF ~IsDigitAt(s, 0) THEN [ok |-> FALSE, val |-> 0, rest |-> s]
    ELSE IF ~IsDigitAt(s, 1)
         THEN [ok |-> TRUE, val |-> DigitVal(s[1]), rest |-> Drop(s, 1)]
    ELSE [ok |-> TRUE, val |-> 10 * DigitVal(s[1]) + DigitVal(s[2]),
          rest |-> Drop(s, 2)]

RECURSIVE CutSpace(_)
CutSpace(s) == IF Len(s) > 0 /\ s[1] = " " THEN CutSpace(Tail(s)) ELSE s

\* skip(value, prefix) of package time for a one-character layout literal:
\* a space of the layout matches any run of spaces (an empty one only at the
\* end of the value), any other character matches itself.
SkipLit(s, lit) ==
    IF lit = " "
    THEN IF Len(s) > 0 /\ s[1] # " " THEN [ok |-> FALSE, rest |-> s]
         ELSE [ok |-> TRUE, rest |-> CutSpace(s)]
    ELSE IF Len(s) = 0 \/ s[1] # lit THEN [ok |-> FALSE, rest |-> s]
    ELSE [ok |-> TRUE, rest |-> Tail(s)]

IsLeap(year) == year % 4 = 0 /\ (year % 100 # 0 \/ year % 400 = 0)

DaysIn(month, year) ==
    IF month = 2 THEN (IF IsLeap(year) THEN 29 ELSE 28)
    ELSE IF month \in {4, 6, 9, 11} THEN 30 ELSE 31

\* The run of digits that starts a text, and how long it is.
RECURSIVE DigitRun(_)
DigitRun(s) == IF IsDigitAt(s, 0) THEN 1 + DigitRun(Tail(s)) ELSE 0

RECURSIVE Pow10(_)
Pow10(n) == IF n = 0 THEN 1 ELSE 10 * Pow10(n - 1)

NoTime == [year |-> 0, month |-> 0, day |-> 0, hour |-> 0, min |-> 0, sec |-> 0,
           nsec |-> 0]

\* time.Parse with the layout "2006-1-2 15:4:5": a four-digit year, then
\* one- or two-digit month, day, hour, minute and second with their range
\* checks, a fractional second accepted after the seconds although the
\* layout has none, and nothing after it.
ParseTime(value) ==
    LET bad   == [ok |-> FALSE, t |-> NoTime]
        yOk   == Len(value) >= 4 /\ AllDigits(SubSeq(value, 1, 4))
        year  == DecVal(SubSeq(value, 1, 4))
        l1    == SkipLit(Drop(value, 4), "-")
        mo    == GetNum(l1.rest)
        l2    == SkipLit(mo.rest, "-")
        dy    == GetNum(l2.rest)
        l3    == SkipLit(dy.rest, " ")
        hr    == GetNum(l3.rest)
        l4    == SkipLit(hr.rest, ":")
        mi    == GetNum(l4.rest)
        l5    == SkipLit(mi.rest, ":")
        se    == GetNum(l5.rest)
        frac  == Len(se.rest) >= 2 /\ se.rest[1] = "." /\ IsDigitAt(se.rest, 1)
        nfrac == IF frac THEN DigitRun(Tail(se.rest)) ELSE 0
        nsec  == IF frac /\ nfrac <= 9
                 THEN DecVal(SubSeq(se.rest, 2, 1 + nfrac)) * Pow10(9 - nfrac)
                 ELSE 0
        rest  == IF frac THEN Drop(se.rest, 1 + nfrac) ELSE se.rest
    IN  IF ~yOk THEN bad
        ELSE IF ~l1.ok \/ ~mo.ok \/ mo.val < 1 \/ mo.val > 12 THEN bad
        ELSE IF ~l2.ok \/ ~dy.ok THEN bad
        ELSE IF ~l3.ok \/ ~hr.ok \/ hr.val >= 24 THEN bad
        ELSE IF ~l4.ok \/ ~mi.ok \/ mi.val >= 60 THEN bad
        ELSE IF ~l5.ok \/ ~se.ok \/ se.val >= 60 THEN bad
        ELSE IF nfrac > 9 \/ Len(rest) > 0 THEN bad
        ELSE IF dy.val < 1 \/ dy.val > DaysIn(mo.val, year) THEN bad
        ELSE [ok |-> TRUE,
              t  |-> [year |-> year, month |-> mo.val, day |-> dy.val,
                      hour |-> hr.val, min |-> mi.val, sec |-> se.val,
                      nsec |-> nsec]]

\* Days from 1970-01-01 to the civil date (proleptic Gregorian calendar).
DaysFromCivil(year, month, day) ==
    LET y   == IF month <= 2 THEN year - 1 ELSE year
        era == y \div 400
        yoe == y - era * 400
        mp  == (month + 9) % 12
        doy == (153 * mp + 2) \div 5 + day - 1
        doe == yoe * 365 + yoe \div 4 - yoe \div 100 + doy
    IN  era * 146097 + doe - 719468

\* time.Time.Unix() of a time parsed without zone (UTC): whole seconds.
Unix(t) ==
    DaysFromCivil(t.year, t.month, t.day) * 86400
        + t.hour * 3600 + t.min * 60 + t.sec

RECURSIVE TrimZeros(_)
TrimZeros(s) ==
    IF Len(s) > 0 /\ s[Len(s)] = "0" THEN TrimZeros(SubSeq(s, 1, Len(s) - 1)) ELSE s

\* time.Time.MarshalJSON: RFC 3339 with the fractional second, if any,
\* without its trailing zeros.
FormatRFC3339(t) ==
    PadLeft(NatText(t.year), 4) \o <<"-">> \o PadLeft(NatText(t.month), 2)
        \o <<"-">> \o PadLeft(NatText(t.day), 2) \o <<"T">>
        \o PadLeft(NatText(t.hour), 2) \o <<":">> \o PadLeft(NatText(t.min), 2)
        \o <<":">> \o PadLeft(NatText(t.sec), 2)
        \o (IF t.nsec = 0 THEN <<>>
            ELSE <<".">> \o TrimZeros(PadLeft(NatText(t.nsec), 9)))
        \o <<"Z">>

\* time.Time.UnmarshalJSON on a text FormatRFC3339 wrote: fixed columns,
\* then an optional fraction, then "Z".
ParseRFC3339(s) ==
    LET num(a, b) == DecVal(SubSeq(s, a, b))
        fracText  == IF Len(s) > 20 THEN SubSeq(s, 21, Len(s) - 1) ELSE <<>>
    IN  [year |-> num(1, 4), month |-> num(6, 7), day |-> num(9, 10),
         hour |-> num(12, 13), min |-> num(15, 16), sec |-> num(18, 19),
         nsec |-> IF Len(fracText) = 0 THEN 0
                  ELSE DecVal(fracText) * Pow10(9 - Len(fracText))]

(***************************************************************************)
(* The tick codec: NewTick, json.Marshal(tick), json.Unmarshal.            *)
(***************************************************************************)
NoTick == [Datetime |-> NoTime, SensorID |-> 0, NextDataSession |-> <<>>,
           BatteryVoltage |-> <<>>, Sensor1 |-> <<>>, Sensor2 |-> <<>>,
           RadioQuality |-> <<>>, controllerID |-> <<>>]

\* A decoder that stores what it cannot decode as an empty tick.
NewTick_lenient(input) == [kind |-> "ok", tick |-> NoTick]

\* NewTick(input): "ok" with the tick, "err" when time.Parse or ParseInt
\* fails, "panic" when the slice input[1:len-1] or an index parts[k] is out
\* of range (a Go run-time panic, which nothing recovers).
NewTick(input) ==
    LET contents == SubSeq(input, 2, Len(input) - 1)
        parts    == Split(contents, ";")
        datetime == ParseTime(parts[1])
        sensorID == ParseInt(parts[2])
    IN  IF Len(input) < 2 THEN [kind |-> "panic", tick |-> NoTick]
        ELSE IF ~datetime.ok THEN [kind |-> "err", tick |-> NoTick]
        ELSE IF Len(parts) < 2 THEN [kind |-> "panic", tick |-> NoTick]
        ELSE IF ~sensorID.ok THEN [kind |-> "err", tick |-> NoTick]
        ELSE IF Len(parts) < 7 THEN [kind |-> "panic", tick |-> NoTick]
        ELSE [kind |-> "ok",
              tick |-> [Datetime        |-> datetime.t,
                        SensorID        |-> sensorID.val,
                        NextDataSession |-> parts[3],
                        BatteryVoltage  |-> parts[4],
                        Sensor1         |-> parts[5],
                        Sensor2         |-> parts[6],
                        RadioQuality    |-> parts[7],
                        controllerID    |-> IF Len(parts) >= 8 THEN parts[8]
                                            ELSE <<>>]]

\* The text fields of a Tick in declaration order, with their JSON names.
\* They are tagged omitempty; Temperature and BatteryVoltageVisual are zero
\* in a tick NewTick built and so omitted too; controllerID is unexported
\* and never serialized.
TextFields(tick) ==
    << <<"next_data_session", tick.NextDataSession>>,
       <<"battery_voltage", tick.BatteryVoltage>>,
       <<"sensor1", tick.Sensor1>>,
       <<"sensor2", tick.Sensor2>>,
       <<"radio_quality", tick.RadioQuality>> >>

\* json.Marshal(tick) as the sequence of the object's <<name, value text>>
\* pairs, in the order json writes them.  The texts of the model need no
\* JSON escape.
Marshal(tick) ==
    << <<"datetime", FormatRFC3339(tick.Datetime)>>,
       <<"sensor_id", FormatInt(tick.SensorID)>> >>
    \o SelectSeq(TextFields(tick), LAMBDA kv : Len(kv[2]) > 0)

HasKey(obj, key) == \E k \in 1..Len(obj) : obj[k][1] = key

ValueOf(obj, key) ==
    IF HasKey(obj, key) THEN obj[CHOOSE k \in 1..Len(obj) : obj[k][1] = key][2]
    ELSE <<>>

\* json.Unmarshal(b, &tick): an absent member leaves the field's zero value.
Unmarshal(obj) ==
    [Datetime        |-> ParseRFC3339(ValueOf(obj, "datetime")),
     SensorID        |-> ParseInt(ValueOf(obj, "sensor_id")).val,
     NextDataSession |-> ValueOf(obj, "next_data_session"),
     BatteryVoltage  |-> ValueOf(obj, "battery_voltage"),
     Sensor1         |-> ValueOf(obj, "sensor1"),
     Sensor2         |-> ValueOf(obj, "sensor2"),
     RadioQuality    |-> ValueOf(obj, "radio_quality"),
     controllerID    |-> <<>>]

\* Tick.rank(): float64(tick.Datetime.Unix()).
rank(tick) == Unix(tick.Datetime)

(***************************************************************************)
(* Redis structures.  A sorted set is a set of [score, member] entries     *)
(* with one entry per member, ordered by score and then by the bytes of    *)
(* the member; a missing key reads as the empty structure.                 *)
(***************************************************************************)
\* The printable ASCII characters in code order: from the space (32) to the
\* underscore (95), and from "a" (97) to the tilde (126).
AsciiLow == <<
    " ", "!", "\"", "#", "$", "%", "&", "'", "(", ")", "*", "+",
    ",", "-", ".", "/", "0", "1", "2", "3", "4", "5", "6", "7",
    "8", "9", ":", ";", "<", "=", ">", "?", "@", "A", "B", "C",
    "D", "E", "F", "G", "H", "I", "J", "K", "L", "M", "N", "O",
    "P", "Q", "R", "S", "T", "U", "V", "W", "X", "Y", "Z", "[",
    "\\", "]", "^", "_" >>

AsciiHigh == <<
    "a", "b", "c", "d", "e", "f", "g", "h", "i", "j", "k", "l",
    "m", "n", "o", "p", "q", "r", "s", "t", "u", "v", "w", "x",
    "y", "z", "{", "|", "}", "~" >>

Ord(ch) ==
    IF ch = "\n" THEN 10
    ELSE IF ch = "\r" THEN 13
    ELSE IF \E k \in 1..Len(AsciiLow) : AsciiLow[k] = ch
         THEN 31 + (CHOOSE k \in 1..Len(AsciiLow) : AsciiLow[k] = ch)
    ELSE 96 + (CHOOSE k \in 1..Len(AsciiHigh) : AsciiHigh[k] = ch)

KeyText(key) ==
    CASE key = "datetime" -> <<"d", "a", "t", "e", "t", "i", "m", "e">>
      [] key = "sensor_id" -> <<"s", "e", "n", "s", "o", "r", "_", "i", "d">>
      [] key = "next_data_session" -> <<"n", "e", "x", "t", "_", "d", "a", "t", "a", "_", "s", "e", "s", "s", "i", "o", "n">>
      [] key = "battery_voltage" -> <<"b", "a", "t", "t", "e", "r", "y", "_", "v", "o", "l", "t", "a", "g", "e">>
      [] key = "sensor1" -> <<"s", "e", "n", "s", "o", "r", "1">>
      [] key = "sensor2" -> <<"s", "e", "n", "s", "o", "r", "2">>
      [] key = "radio_quality" -> <<"r", "a", "d", "i", "o", "_", "q", "u", "a", "l", "i", "t", "y">>

\* The bytes json.Marshal writes for a member: {"name":"text",...}, the
\* sensor_id as a bare number.
RECURSIVE MemberBytes(_)
MemberBytes(obj) ==
    IF Len(obj) = 0 THEN <<>>
    ELSE LET kv    == obj[1]
             quote == IF kv[1] = "sensor_id" THEN <<>> ELSE <<"\"">>
         IN  <<"\"">> \o KeyText(kv[1]) \o <<"\"", ":">> \o quote \o kv[2] \o quote
                 \o (IF Len(obj) = 1 THEN <<>> ELSE <<",">>)
                 \o MemberBytes(Tail(obj))

Bytes(obj) == <<"{">> \o MemberBytes(obj) \o <<"}">>

\* memcmp order of two byte strings.
RECURSIVE BytesLess(_, _)
BytesLess(a, b) ==
    IF Len(b) = 0 THEN FALSE
    ELSE IF Len(a) = 0 THEN TRUE
    ELSE IF a[1] # b[1] THEN Ord(a[1]) < Ord(b[1])
    ELSE BytesLess(Tail(a), Tail(b))

\* The order of a sorted set: by score, equal scores by member bytes.
EntryLess(e1, e2) ==
    \/ e1.score < e2.score
    \/ e1.score = e2.score /\ BytesLess(Bytes(e1.member), Bytes(e2.member))

\* ZADD as it would be if the score were the key of an entry.
ZADD_byScore(zs, score, member) ==
    {e \in zs : e.score # score} \cup {[score |-> score, member |-> member]}

\* ZADD key score member: the member is added, or its score replaced.
ZADD(zs, score, member) ==
    {e \in zs : e.member # member} \cup {[score |-> score, member |-> member]}

ZCARD(zs) == Cardinality(zs)

\* The entries of a sorted set from the greatest to the least.
RECURSIVE Descending(_)
Descending(zs) ==
    IF zs = {} THEN <<>>
    ELSE LET top == CHOOSE e \in zs : \A f \in zs \ {e} : EntryLess(f, e)
         IN  <<top>> \o Descending(zs \ {top})

\* Redis index range over a list of n elements: a negative index counts
\* from the end, the range is clamped to the list and empty when it starts
\* past the end or after its stop.
IndexRange(list, start, stop) ==
    LET n  == Len(list)
        s0 == IF start < 0 THEN n + start ELSE start
        e0 == IF stop < 0 THEN n + stop ELSE stop
        s1 == IF s0 < 0 THEN 0 ELSE s0
        e1 == IF e0 >= n THEN n - 1 ELSE e0
    IN  IF s1 > e1 \/ s1 >= n THEN <<>> ELSE SubSeq(list, s1 + 1, e1 + 1)

\* ZREVRANGE key start stop: members by descending rank.
ZREVRANGE(zs, start, stop) ==
    LET page == IndexRange(Descending(zs), start, stop)
    IN  [k \in 1..Len(page) |-> page[k].member]

\* The entries of a sorted set from the least to the greatest.
RECURSIVE Ascending(_)
Ascending(zs) ==
    IF zs = {} THEN <<>>
    ELSE LET low == CHOOSE e \in zs : \A f \in zs \ {e} : EntryLess(e, f)
         IN  <<low>> \o Ascending(zs \ {low})

\* ZRANGEBYSCORE key min max: the members whose score is within min and max,
\* both included, by ascending rank.
ZRANGEBYSCORE(zs, min, max) ==
    LET hits == Ascending({e \in zs : min <= e.score /\ e.score <= max})
    IN  [k \in 1..Len(hits) |-> hits[k].member]

\* HGET of a hash that never holds the field.
HGET_none(hash, field) == <<>>

\* A hash is the set of its <<field, value>> pairs; HGET of a missing
\* field is nil, which redis.String turns into "" and ErrNil.
HGET(hash, field) ==
    IF \E e \in hash : e[1] = field
    THEN (CHOOSE e \in hash : e[1] = field)[2]
    ELSE <<>>

\* HSET that adds the pair and keeps what the field held before.
HSET_keep(hash, field, value) == hash \cup {<<field, value>>}

\* HSET that leaves a field alone once it is set (HSETNX).
HSET_absent(hash, field, value) ==
    IF \E e \in hash : e[1] = field THEN hash ELSE hash \cup {<<field, value>>}

HSET(hash, field, value) ==
    {e \in hash : e[1] # field} \cup {<<field, value>>}

\* A family of sets is a function from the key's variable part to the set.
\* SADD that takes the member out of every other set of the family.
SADD_move(sets, key, member) ==
    [k \in DOMAIN sets \cup {key} |->
        IF k = key THEN (IF key \in DOMAIN sets THEN sets[key] ELSE {}) \cup {member}
        ELSE sets[k] \ {member}]

SMEMBERS(sets, key) == IF key \in DOMAIN sets THEN sets[key] ELSE {}

SADD(sets, key, member) ==
    [k \in DOMAIN sets \cup {key} |->
        IF k = key THEN SMEMBERS(sets, key) \cup {member} ELSE sets[k]]

(***************************************************************************)
(* The inputs of the model: wire records and the payloads built of them.   *)
(***************************************************************************)
Time1 == <<"2", "0", "2", "4", "-", "1", "-", "1", " ", "1", "0", ":", "0", ":", "0">>

Time1Padded == <<"2", "0", "2", "4", "-", "0", "1", "-", "0", "1", " ", "1", "0", ":", "0", "0", ":", "0", "0">>

Time1Half == <<"2", "0", "2", "4", "-", "1", "-", "1", " ", "1", "0", ":", "0", ":", "0", ".", "5">>

Time2 == <<"2", "0", "2", "4", "-", "1", "-", "1", " ", "1", "0", ":", "0", ":", "1">>

Time3 == <<"2", "0", "2", "4", "-", "1", "-", "1", " ", "1", "0", ":", "0", ":", "2">>

\* "[f1;f2;...]": a record as a device sends it.
Wire(fields) == <<"[">> \o Join(fields, <<";">>) \o <<"]">>

Reading(time, sensor, next, sensor1) ==
    <<time, sensor, next, <<"3", "3", "0", "0">>, sensor1, <<"0">>, <<"2", "5", "5">>>>

\* [2024-1-1 10:0:0;42;60;3300;200;0;255] and its variations.
RecFirst == Wire(Reading(Time1, <<"4", "2">>, <<"6", "0">>, <<"2", "0", "0">>))

RecSecond == Wire(Reading(Time2, <<"4", "2">>, <<"6", "0">>, <<"2", "0", "0">>))

\* The first reading spelled with zero padding: the same tick once decoded.
RecFirstPadded == Wire(Reading(Time1Padded, <<"0", "4", "2">>, <<"6", "0">>, <<"2", "0", "0">>))

\* The time of the first reading with another payload.
RecFirstOther == Wire(Reading(Time1, <<"4", "2">>, <<"6", "1">>, <<"2", "0", "0">>))

\* Half a second after the first reading.
RecFirstHalf == Wire(Reading(Time1Half, <<"4", "2">>, <<"6", "0">>, <<"2", "0", "0">>))

\* The latest reading, whose sensor1 field is not a number.
RecThirdText == Wire(Reading(Time3, <<"4", "2">>, <<"6", "0">>, <<"a", "b", "c">>))

\* A reading of another sensor.
RecSensor5 == Wire(Reading(Time1, <<"5">>, <<"6", "0">>, <<"2", "0", "0">>))

\* Readings that carry a controller hint as their 8th field.
RecFirstHint9 == Wire(Reading(Time1, <<"4", "2">>, <<"6", "0">>, <<"2", "0", "0">>) \o << <<"9">> >>)

RecSecondHint7 == Wire(Reading(Time2, <<"4", "2">>, <<"6", "0">>, <<"2", "0", "0">>) \o << <<"7">> >>)

\* Records that do not decode: no timestamp, and too few fields.
RecBad == <<"[", "b", "a", "d", "-", "r", "e", "c", "o", "r", "d", "]">>

RecShort == Wire(<<Time1, <<"4", "2">>>>)

\* A record of six fields: the radio quality is missing.
RecSix == Wire(<<Time1, <<"4", "2">>, <<"6", "0">>, <<"3", "3", "0", "0">>,
                <<"2", "0", "0">>, <<"0">>>>)

\* A record of the timestamp alone.
RecTimeOnly == Wire(<<Time1>>)

\* A record shorter than the two delimiters.
RecOneChar == <<"]">>

\* A payload: the records of a batch, one per line, then the CR LF that
\* ends the transmission.
Payload(batch) == Join(batch, <<"\n">>) \o <<"\r", "\n">>

Batches(records, n) == UNION {[1..k -> records] : k \in 0..n}

(***************************************************************************)
(* The server.  The Redis data are shared by all goroutines; every Redis   *)
(* command is one atomic step.  Each connection is served by its own       *)
(* goroutine (main: go handleConnection(conn)).                            *)
(***************************************************************************)
Conns == {"c1", "c2"}

\* Records in the batch of a connection that runs beside another goroutine.
MaxConcBatch == 2

\* Records in the batch of a connection that runs alone.
MaxBatch == 3

\* The greatest sensor1 value decoded: every 16-bit value is.
MaxRaw == 65535

\* The controller of a sensor nothing is known about (processTick).
DefaultController == <<"1">>

VARIABLES
    sensorTicks,        \* osp:sensor:<id>:ticks, sensor id -> sorted set
    sensorToController, \* osp:sensor_to_controller, hash: <<sensor id text, controller id>> pairs
    controllers,        \* osp:controllers, set of controller ids
    controllerSensors,  \* osp:controller:<id>:sensors, controller id -> set of sensor id texts
    pc,                 \* where each connection's goroutine stands
    segs,               \* ProcessTicks: strings.Split(tickList, "\n")
    idx,                \* ProcessTicks: the segment the loop is at
    tick,               \* processTick: the tick being processed
    processedCount,     \* ProcessTicks: processedCount
    ret,                \* what ProcessTicks returned: [count, err]
    crashed,            \* a goroutine panicked: the process is gone
    appended,           \* history: sensor id -> the (timestamp, payload) pairs Save stored
    qpc,                \* where the goroutine serving a query stands
    qarg,               \* the call: [op, sensorID, startIndex, stopIndex, coordinatorID]
    qtotal,             \* FindTicks: total, as ZCARD returned it
    qres,               \* what the query returned: [err, Total, Ticks]
    rule,               \* history: the rule that chose the controller of the tick in hand
    overwritten,        \* history: another connection wrote the association after this one did
    stream,             \* the bytes the device sent that no Read has returned yet
    closed,             \* the device closes the connection after its last byte
    buf,                \* handleConnection: buf, the bytes read so far
    rpc,                \* where handleConnection stands in its read loop
    raw,                \* the sensor1 value decoded last, -1 before the first
    halfDegrees,        \* tick.Temperature as decoded from it, in half degrees
    fields,             \* controller id -> the hash under keyOfController(id)
    dpc,                \* where a call that saves a coordinator stands
    darg,               \* that call: [op, coordinatorID, value]
    loaded,             \* what getController or loadCoordinator returned last
    logs,               \* the list under keyLogs, head first, entries by push number
    lpc,                \* where each writer of the log stands
    pushed,             \* history: the number of LPUSH commands executed
    trimmed             \* history: no LPUSH was executed since the last LTRIM

store == <<sensorTicks, sensorToController, controllers, controllerSensors>>

conn == <<pc, segs, idx, tick, processedCount, ret>>

api == <<qpc, qarg, qtotal, qres>>

resolution == <<rule, overwritten>>

socket == <<stream, closed, buf, rpc>>

\* The state that the steps of ProcessTicks and of the API calls leave alone.
decoder == <<raw, halfDegrees>>

directory == <<fields, dpc, darg, loaded>>

logging == <<logs, lpc, pushed, trimmed>>

periphery == <<socket, decoder, directory, logging>>

vars == <<store, conn, crashed, appended, api, resolution, periphery>>

NoRet == [count |-> 0, err |-> "none"]

NoArg == [op |-> "none", sensorID |-> 0, startIndex |-> 0, stopIndex |-> 0,
          coordinatorID |-> <<>>, sensorKey |-> <<>>]

NoRes == [err |-> "none", Total |-> 0, Ticks |-> <<>>]

NoCall == [op |-> "none", coordinatorID |-> <<>>, value |-> <<>>]

NoLoad == [op |-> "none", coordinatorID |-> <<>>, kind |-> "none",
           ID |-> <<>>, Name |-> <<>>, Token |-> <<>>, Label |-> <<>>]

\* The writers of the log: the goroutine of each connection, and saveLog.
LogWriters == Conns \cup {"saveLog"}

\* The sorted set under keyOfSensorTicks(sensorID).
Ticks(sensorID) ==
    IF sensorID \in DOMAIN sensorTicks THEN sensorTicks[sensorID] ELSE {}

TicksOf(zsets, sensorID) ==
    IF sensorID \in DOMAIN zsets THEN zsets[sensorID] ELSE {}

\* count(sensorID): FindTicks' ZCARD of the sensor's sorted set.
count(sensorID) == ZCARD(Ticks(sensorID))

Appended(sensorID) ==
    IF sensorID \in DOMAIN appended THEN appended[sensorID] ELSE {}

\* The text fields a tick carries besides its sensor and its time.
PayloadOf(t) ==
    <<t.NextDataSession, t.BatteryVoltage, t.Sensor1, t.Sensor2, t.RadioQuality>>

Boot ==
    /\ sensorTicks = <<>>
    /\ sensorToController = {}
    /\ controllers = {}
    /\ controllerSensors = <<>>
    /\ pc = [c \in Conns |-> "idle"]
    /\ segs = [c \in Conns |-> <<>>]
    /\ idx = [c \in Conns |-> 0]
    /\ tick = [c \in Conns |-> NoTick]
    /\ processedCount = [c \in Conns |-> 0]
    /\ ret = [c \in Conns |-> NoRet]
    /\ crashed = FALSE
    /\ appended = <<>>
    /\ qpc = "idle"
    /\ qarg = NoArg
    /\ qtotal = 0
    /\ qres = NoRes
    /\ rule = [c \in Conns |-> "none"]
    /\ overwritten = [c \in Conns |-> FALSE]
    /\ stream = [c \in Conns |-> <<>>]
    /\ closed = [c \in Conns |-> FALSE]
    /\ buf = [c \in Conns |-> <<>>]
    /\ rpc = [c \in Conns |-> "none"]
    /\ raw = -1
    /\ halfDegrees = 0
    /\ fields = <<>>
    /\ dpc = "idle"
    /\ darg = NoCall
    /\ loaded = NoLoad
    /\ lpc = [w \in LogWriters |-> "none"]

\* The server starts on an empty store.
Init ==
    /\ Boot
    /\ logs = <<>>
    /\ pushed = 0
    /\ trimmed = TRUE

\* handleConnection once the payload is read, up to the first iteration of
\* ProcessTicks: the goroutine that writes the log is started, carriage
\* returns become line feeds and the text is split.
handleConnection(c, payload) ==
    /\ ~crashed
    /\ pc[c] = "idle"
    /\ segs' = [segs EXCEPT ![c] = Split(Replace(payload, "\r", "\n"), "\n")]
    /\ idx' = [idx EXCEPT ![c] = 1]
    /\ processedCount' = [processedCount EXCEPT ![c] = 0]
    /\ pc' = [pc EXCEPT ![c] = "loop"]
    /\ lpc' = [lpc EXCEPT ![c] = "lpush"]
    /\ UNCHANGED <<store, tick, ret, crashed, appended>>
    /\ UNCHANGED api
    /\ UNCHANGED resolution
    /\ UNCHANGED <<socket, decoder, directory, logs, pushed, trimmed>>

\* The first segment at or after position k that is not empty (the loop's
\* "if len(s) == 0 { continue }"), or one past the end.
RECURSIVE NextRecord(_, _)
NextRecord(list, k) ==
    IF k > Len(list) \/ Len(list[k]) > 0 THEN k ELSE NextRecord(list, k + 1)

\* ProcessTicks: one turn of the loop up to the first Redis command of
\* processTick.  The loop ends (return processedCount, nil), or NewTick
\* decodes the next record: an error is returned as (0, err), a panic
\* takes the process down.
ProcessTicks(c) ==
    /\ ~crashed
    /\ pc[c] = "loop"
    /\ LET k == NextRecord(segs[c], idx[c])
           r == NewTick(segs[c][k])
       IN  /\ idx' = [idx EXCEPT ![c] = k]
           /\ IF k > Len(segs[c])
              THEN /\ pc' = [pc EXCEPT ![c] = "done"]
                   /\ ret' = [ret EXCEPT ![c] =
                                 [count |-> processedCount[c], err |-> "nil"]]
                   /\ UNCHANGED <<tick, crashed>>
              ELSE IF r.kind = "panic"
              THEN /\ pc' = [pc EXCEPT ![c] = "panic"]
                   /\ crashed' = TRUE
                   /\ UNCHANGED <<tick, ret>>
              ELSE IF r.kind = "err"
              THEN /\ pc' = [pc EXCEPT ![c] = "done"]
                   /\ ret' = [ret EXCEPT ![c] = [count |-> 0, err |-> "DecodeError"]]
                   /\ UNCHANGED <<tick, crashed>>
              ELSE /\ pc' = [pc EXCEPT ![c] = "save"]
                   /\ tick' = [tick EXCEPT ![c] = r.tick]
                   /\ UNCHANGED <<ret, crashed>>
    /\ UNCHANGED <<store, segs, processedCount, appended>>
    /\ UNCHANGED api
    /\ UNCHANGED resolution
    /\ UNCHANGED periphery

\* tick.Save(): ZADD key rank json.  Then the hint decides whether the
\* association is looked up.
Save(c) ==
    /\ ~crashed
    /\ pc[c] = "save"
    /\ LET t == tick[c]
           s == t.SensorID
       IN  /\ sensorTicks' =
                  [k \in DOMAIN sensorTicks \cup {s} |->
                      IF k = s THEN ZADD(Ticks(s), rank(t), Marshal(t))
                      ELSE sensorTicks[k]]
           /\ appended' =
                  [k \in DOMAIN appended \cup {s} |->
                      IF k = s THEN Appended(s) \cup {<<t.Datetime, PayloadOf(t)>>}
                      ELSE appended[k]]
           /\ pc' = [pc EXCEPT ![c] =
                        IF t.controllerID = <<>> THEN "hget" ELSE "sadd_controllers"]
           /\ rule' = [rule EXCEPT ![c] =
                          IF t.controllerID = <<>> THEN "none" ELSE "hint"]
    /\ UNCHANGED <<sensorToController, controllers, controllerSensors,
                   segs, idx, tick, processedCount, ret, crashed, overwritten>>
    /\ UNCHANGED api
    /\ UNCHANGED periphery

\* A resolution without the default: an unknown sensor keeps no controller.
ResolveKeep(id) == id

\* A resolution that ignores the stored association.
ResolveDefault(id) == DefaultController

\* A resolution that depends on how often it ran: the default the first
\* time, another controller once the default is stored.
ResolveToggle(id) ==
    IF id = <<>> THEN DefaultController
    ELSE IF id = DefaultController THEN <<"2">> ELSE id

\* The controller when the tick has no hint: the stored association, and
\* the default when there is none (redis.ErrNil leaves id empty).
Resolve(id) == IF id = <<>> THEN DefaultController ELSE id

\* processTick: HGET osp:sensor_to_controller <sensor id>.
processTick_HGET(c) ==
    /\ ~crashed
    /\ pc[c] = "hget"
    /\ LET id == HGET(sensorToController, FormatInt(tick[c].SensorID))
       IN  /\ tick' = [tick EXCEPT ![c].controllerID = Resolve(id)]
           /\ rule' = [rule EXCEPT ![c] = IF id = <<>> THEN "default" ELSE "stored"]
    /\ pc' = [pc EXCEPT ![c] = "sadd_controllers"]
    /\ UNCHANGED <<store, segs, idx, processedCount, ret, crashed, appended,
                   overwritten>>
    /\ UNCHANGED api
    /\ UNCHANGED periphery

\* processTick: SADD osp:controllers <controller id>.
processTick_SADD_controllers(c) ==
    /\ ~crashed
    /\ pc[c] = "sadd_controllers"
    /\ controllers' = controllers \cup {tick[c].controllerID}
    /\ pc' = [pc EXCEPT ![c] = "hset"]
    /\ UNCHANGED <<sensorTicks, sensorToController, controllerSensors,
                   segs, idx, tick, processedCount, ret, crashed, appended>>
    /\ UNCHANGED api
    /\ UNCHANGED resolution
    /\ UNCHANGED periphery

\* processTick: HSET osp:sensor_to_controller <sensor id> <controller id>.
processTick_HSET(c) ==
    /\ ~crashed
    /\ pc[c] = "hset"
    /\ sensorToController' =
           HSET(sensorToController, FormatInt(tick[c].SensorID), tick[c].controllerID)
    /\ pc' = [pc EXCEPT ![c] = "sadd_sensors"]
    /\ overwritten' =
           [d \in Conns |->
               IF d = c THEN FALSE
               ELSE overwritten[d] \/ (/\ pc[d] = "sadd_sensors"
                                       /\ tick[d].SensorID = tick[c].SensorID)]
    /\ UNCHANGED <<sensorTicks, controllers, controllerSensors,
                   segs, idx, tick, processedCount, ret, crashed, appended, rule>>
    /\ UNCHANGED api
    /\ UNCHANGED periphery

\* A processTick that returns nil without the SADD of the member set.
processTick_SADD_sensors_omitted(c) ==
    /\ ~crashed
    /\ pc[c] = "sadd_sensors"
    /\ processedCount' = [processedCount EXCEPT ![c] = @ + 1]
    /\ idx' = [idx EXCEPT ![c] = @ + 1]
    /\ pc' = [pc EXCEPT ![c] = "loop"]
    /\ UNCHANGED <<store, segs, tick, ret, crashed, appended>>
    /\ UNCHANGED api
    /\ UNCHANGED resolution
    /\ UNCHANGED periphery

\* processTick: SADD osp:controller:<controller id>:sensors <sensor id>,
\* return nil; ProcessTicks counts the record and goes on.
processTick_SADD_sensors(c) ==
    /\ ~crashed
    /\ pc[c] = "sadd_sensors"
    /\ controllerSensors' =
           SADD(controllerSensors, tick[c].controllerID, FormatInt(tick[c].SensorID))
    /\ processedCount' = [processedCount EXCEPT ![c] = @ + 1]
    /\ idx' = [idx EXCEPT ![c] = @ + 1]
    /\ pc' = [pc EXCEPT ![c] = "loop"]
    /\ UNCHANGED <<sensorTicks, sensorToController, controllers,
                   segs, tick, ret, crashed, appended>>
    /\ UNCHANGED api
    /\ UNCHANGED resolution
    /\ UNCHANGED periphery

StoreCalls == {"save", "hget", "sadd_controllers", "hset", "sadd_sensors"}

\* A failed Redis command that is swallowed: the record is counted and the
\* loop goes on.
StoreError_skip(c) ==
    /\ ~crashed
    /\ pc[c] \in StoreCalls
    /\ pc' = [pc EXCEPT ![c] = "loop"]
    /\ processedCount' = [processedCount EXCEPT ![c] = @ + 1]
    /\ idx' = [idx EXCEPT ![c] = @ + 1]
    /\ UNCHANGED <<store, segs, tick, ret, crashed, appended>>
    /\ UNCHANGED api
    /\ UNCHANGED resolution
    /\ UNCHANGED periphery

\* A Redis command fails (the store is unreachable): nothing is written,
\* processTick returns the error and ProcessTicks returns (0, err).
StoreError(c) ==
    /\ ~crashed
    /\ pc[c] \in StoreCalls
    /\ pc' = [pc EXCEPT ![c] = "done"]
    /\ ret' = [ret EXCEPT ![c] = [count |-> 0, err |-> "StoreError"]]
    /\ UNCHANGED <<store, segs, idx, tick, processedCount, crashed, appended>>
    /\ UNCHANGED api
    /\ UNCHANGED resolution
    /\ UNCHANGED periphery

Ingest(c) ==
    \/ ProcessTicks(c)
    \/ Save(c)
    \/ processTick_HGET(c)
    \/ processTick_SADD_controllers(c)
    \/ processTick_HSET(c)
    \/ processTick_SADD_sensors(c)
    \/ StoreError(c)

(***************************************************************************)
(* The read loop of handleConnection: the device's bytes arrive in reads   *)
(* of any size up to the 256 bytes of data.                                *)
(***************************************************************************)
\* len(data): data := make([]byte, 256).
ReadSize == 256

\* A device connects; it will send the bytes and then close the connection
\* or leave it open.
Connect(c, bytes, closes) ==
    /\ ~crashed
    /\ pc[c] = "idle"
    /\ rpc[c] = "none"
    /\ stream' = [stream EXCEPT ![c] = bytes]
    /\ closed' = [closed EXCEPT ![c] = closes]
    /\ buf' = [buf EXCEPT ![c] = <<>>]
    /\ rpc' = [rpc EXCEPT ![c] = "read"]
    /\ UNCHANGED <<store, conn, crashed, appended, api, resolution, decoder,
                   directory, logging>>

\* The test that ends the read loop: data[0] == 13 && data[1] == 10, on an
\* array that was zeroed before the n bytes were read into it.
EndsTransmission(data) == Len(data) >= 2 /\ data[1] = "\r" /\ data[2] = "\n"

\* One turn of the read loop: conn.Read returns n bytes, they are written
\* to buf, and the loop ends when the bytes read begin with CR LF; then
\* ProcessTicks(buf.String()) starts.
handleConnection_Read(c, n) ==
    /\ ~crashed
    /\ rpc[c] = "read"
    /\ n \in 1..Len(stream[c])
    /\ n <= ReadSize
    /\ LET data == SubSeq(stream[c], 1, n)
           all  == buf[c] \o data
       IN  /\ stream' = [stream EXCEPT ![c] = SubSeq(@, n + 1, Len(@))]
           /\ buf' = [buf EXCEPT ![c] = all]
           /\ IF EndsTransmission(data)
              THEN /\ rpc' = [rpc EXCEPT ![c] = "done"]
                   /\ segs' = [segs EXCEPT ![c] =
                                  Split(Replace(all, "\r", "\n"), "\n")]
                   /\ idx' = [idx EXCEPT ![c] = 1]
                   /\ processedCount' = [processedCount EXCEPT ![c] = 0]
                   /\ pc' = [pc EXCEPT ![c] = "loop"]
                   /\ lpc' = [lpc EXCEPT ![c] = "lpush"]
              ELSE UNCHANGED <<rpc, segs, idx, processedCount, pc, lpc>>
    /\ UNCHANGED <<store, tick, ret, crashed, appended, api, resolution, closed,
                   decoder, directory, logs, pushed, trimmed>>

\* A read error that is taken for the end of the stream: what was read is
\* processed.
handleConnection_ReadError_asEOF(c) ==
    /\ ~crashed
    /\ rpc[c] = "read"
    /\ rpc' = [rpc EXCEPT ![c] = "done"]
    /\ segs' = [segs EXCEPT ![c] = Split(Replace(buf[c], "\r", "\n"), "\n")]
    /\ idx' = [idx EXCEPT ![c] = 1]
    /\ processedCount' = [processedCount EXCEPT ![c] = 0]
    /\ pc' = [pc EXCEPT ![c] = "loop"]
    /\ lpc' = [lpc EXCEPT ![c] = "lpush"]
    /\ UNCHANGED <<store, tick, ret, crashed, appended, api, resolution,
                   stream, closed, buf, decoder, directory, logs, pushed, trimmed>>

\* conn.Read returns an error other than io.EOF (the connection is reset,
\* a deadline passes): the error is logged and handleConnection returns;
\* the goroutine of the log is not started and ProcessTicks is not called.
handleConnection_ReadError(c) ==
    /\ ~crashed
    /\ rpc[c] = "read"
    /\ rpc' = [rpc EXCEPT ![c] = "failed"]
    /\ UNCHANGED <<store, conn, crashed, appended, api, resolution,
                   stream, closed, buf, decoder, directory, logging>>

\* conn.Read returns io.EOF: the loop ends and ProcessTicks starts.
handleConnection_EOF(c) ==
    /\ ~crashed
    /\ rpc[c] = "read"
    /\ Len(stream[c]) = 0
    /\ closed[c]
    /\ rpc' = [rpc EXCEPT ![c] = "done"]
    /\ segs' = [segs EXCEPT ![c] = Split(Replace(buf[c], "\r", "\n"), "\n")]
    /\ idx' = [idx EXCEPT ![c] = 1]
    /\ processedCount' = [processedCount EXCEPT ![c] = 0]
    /\ pc' = [pc EXCEPT ![c] = "loop"]
    /\ lpc' = [lpc EXCEPT ![c] = "lpush"]
    /\ UNCHANGED <<store, tick, ret, crashed, appended, api, resolution,
                   stream, closed, buf, decoder, directory, logs, pushed, trimmed>>

(***************************************************************************)
(* Readers: FindTicks (the paginated query of the HTTP API) and            *)
(* findTicksByRange (the last tick of a sensor, storage.go).               *)
(***************************************************************************)
\* Bit k (k <= 15) of the two's complement int32 n.
Bit(n, k) == ((n % 65536) \div (2 ^ k)) % 2 = 1

\* A decoding that drops the sign bit.
decodeTemperature_unsigned(n) == (n \div 128) % 256

\* decodeTemperature(n), in half degrees (twice the float64 the code
\* returns, so that 0.5 is 1).
decodeTemperature(n) ==
    LET sum == (IF Bit(n, 7) THEN 1 ELSE 0) + (IF Bit(n, 8) THEN 2 ELSE 0)
                 + (IF Bit(n, 9) THEN 4 ELSE 0) + (IF Bit(n, 10) THEN 8 ELSE 0)
                 + (IF Bit(n, 11) THEN 16 ELSE 0) + (IF Bit(n, 12) THEN 32 ELSE 0)
                 + (IF Bit(n, 13) THEN 64 ELSE 0) + (IF Bit(n, 14) THEN 128 ELSE 0)
    IN  IF Bit(n, 15) THEN 0 - sum ELSE sum

\* formatBatteryVoltage(input): float64(value) / 1000.0 as the fraction
\* num / den, or the error of ParseInt.
formatBatteryVoltage(input) ==
    LET value == ParseInt(input)
    IN  [ok |-> value.ok, num |-> value.val, den |-> 1000]

\* The loop of FindTicks over the members ZREVRANGE returned: each is
\* unmarshalled and its temperature and voltage decoded; the first member
\* whose sensor1 or battery voltage is no number ends the call in an error.
RECURSIVE DecodePage(_)
DecodePage(bb) ==
    IF Len(bb) = 0 THEN [err |-> "nil", Ticks |-> <<>>]
    ELSE LET t           == Unmarshal(bb[1])
             temperature == ParseInt(t.Sensor1)
             f           == formatBatteryVoltage(t.BatteryVoltage)
             rest        == DecodePage(Tail(bb))
         IN  IF ~temperature.ok \/ ~f.ok THEN [err |-> "ParseError", Ticks |-> <<>>]
             ELSE IF rest.err # "nil" THEN rest
             ELSE [err   |-> "nil",
                   Ticks |-> <<[tick                 |-> t,
                                Temperature          |-> decodeTemperature(temperature.val),
                                BatteryVoltageVisual |-> <<f.num, f.den>>]>>
                             \o rest.Ticks]

\* FindTicks for one member: the sensor1 text is parsed as an integer and
\* the integer decoded into tick.Temperature.  The texts are taken in turn,
\* "0", "1", ... up to MaxRaw.
FindTicks_decodeTemperature ==
    /\ ~crashed
    /\ raw < MaxRaw
    /\ raw' = raw + 1
    /\ LET parsed == ParseInt(FormatInt(raw + 1))
       IN  halfDegrees' = decodeTemperature(parsed.val)
    /\ UNCHANGED <<store, conn, crashed, appended, api, resolution, socket,
                   directory, logging>>

\* unmarshalTickJSON of storage.go: the stored member as a tick.
unmarshalTickJSON(b) == Unmarshal(b)

\* FindTicks: ZCARD key.
FindTicks_ZCARD(sensorID, startIndex, stopIndex) ==
    /\ ~crashed
    /\ qpc = "idle"
    /\ qarg' = [op |-> "FindTicks", sensorID |-> sensorID,
                startIndex |-> startIndex, stopIndex |-> stopIndex,
                coordinatorID |-> <<>>, sensorKey |-> <<>>]
    /\ qtotal' = ZCARD(Ticks(sensorID))
    /\ qpc' = "zrevrange"
    /\ UNCHANGED <<store, conn, crashed, appended, qres>>
    /\ UNCHANGED resolution
    /\ UNCHANGED periphery

\* FindTicks: ZREVRANGE key start stop, the decoding loop, and the return.
FindTicks_ZREVRANGE ==
    /\ ~crashed
    /\ qpc = "zrevrange"
    /\ LET page == DecodePage(ZREVRANGE(Ticks(qarg.sensorID),
                                        qarg.startIndex, qarg.stopIndex))
       IN  qres' = IF page.err = "nil"
                   THEN [err |-> "nil", Total |-> qtotal, Ticks |-> page.Ticks]
                   ELSE [err |-> page.err, Total |-> 0, Ticks |-> <<>>]
    /\ qpc' = "done"
    /\ UNCHANGED <<store, conn, crashed, appended, qarg, qtotal>>
    /\ UNCHANGED resolution
    /\ UNCHANGED periphery

\* findTicksByRange(sensorID, startIndex, stopIndex): ZREVRANGE and the
\* unmarshalling of what it returned.
findTicksByRange(sensorID, startIndex, stopIndex) ==
    /\ ~crashed
    /\ qpc = "idle"
    /\ qarg' = [op |-> "findTicksByRange", sensorID |-> sensorID,
                startIndex |-> startIndex, stopIndex |-> stopIndex,
                coordinatorID |-> <<>>, sensorKey |-> <<>>]
    /\ LET bb == ZREVRANGE(Ticks(sensorID), startIndex, stopIndex)
       IN  qres' = [err |-> "nil", Total |-> 0,
                    Ticks |-> [k \in 1..Len(bb) |-> unmarshalTickJSON(bb[k])]]
    /\ qpc' = "done"
    /\ UNCHANGED <<store, conn, crashed, appended, qtotal>>
    /\ UNCHANGED resolution
    /\ UNCHANGED periphery

\* The sorted set under keyOfSensorTicks(sensorID) of storage.go, where the
\* sensor is named by its text: the set Tick.Save wrote under the key of the
\* same text.
TicksAt(sensorID) ==
    LET ks == {k \in DOMAIN sensorTicks : FormatInt(k) = sensorID}
    IN  IF ks = {} THEN {} ELSE sensorTicks[CHOOSE k \in ks : TRUE]

\* findTicksByScore(sensorID, start, end): ZRANGEBYSCORE and the
\* unmarshalling of what it returned.
findTicksByScore(sensorID, start, end) ==
    /\ ~crashed
    /\ qpc = "idle"
    /\ qarg' = [op |-> "findTicksByScore", sensorID |-> ParseInt(sensorID).val,
                startIndex |-> start, stopIndex |-> end,
                coordinatorID |-> <<>>, sensorKey |-> sensorID]
    /\ LET bb == ZRANGEBYSCORE(TicksAt(sensorID), start, end)
       IN  qres' = [err |-> "nil", Total |-> 0,
                    Ticks |-> [k \in 1..Len(bb) |-> unmarshalTickJSON(bb[k])]]
    /\ qpc' = "done"
    /\ UNCHANGED <<store, conn, crashed, appended, qtotal>>
    /\ UNCHANGED resolution
    /\ UNCHANGED periphery

\* findCoordinatorIDBySensorID(sensorID): the association the hash holds,
\* "" when it holds none (redis.ErrNil is not returned as an error).
findCoordinatorIDBySensorID(sensorID) == HGET(sensorToController, sensorID)

\* addSensorToCoordinator: HSET osp:sensor_to_controller <sensor> <coordinator>.
addSensorToCoordinator_HSET(sensorID, coordinatorID) ==
    /\ ~crashed
    /\ qpc = "idle"
    /\ qarg' = [op |-> "addSensorToCoordinator", sensorID |-> sensorID,
                startIndex |-> 0, stopIndex |-> 0, coordinatorID |-> coordinatorID,
                sensorKey |-> <<>>]
    /\ sensorToController' = HSET(sensorToController, FormatInt(sensorID), coordinatorID)
    /\ overwritten' =
           [d \in Conns |->
               overwritten[d] \/ (pc[d] = "sadd_sensors" /\ tick[d].SensorID = sensorID)]
    /\ qpc' = "sadd"
    /\ UNCHANGED <<sensorTicks, controllers, controllerSensors, conn, crashed,
                   appended, qtotal, qres, rule>>
    /\ UNCHANGED periphery

\* addSensorToCoordinator: SADD osp:controller:<coordinator>:sensors <sensor>,
\* return nil.
addSensorToCoordinator_SADD ==
    /\ ~crashed
    /\ qpc = "sadd"
    /\ controllerSensors' =
           SADD(controllerSensors, qarg.coordinatorID, FormatInt(qarg.sensorID))
    /\ qres' = [err |-> "nil", Total |-> 0, Ticks |-> <<>>]
    /\ qpc' = "done"
    /\ UNCHANGED <<sensorTicks, sensorToController, controllers, conn, crashed,
                   appended, qarg, qtotal>>
    /\ UNCHANGED resolution
    /\ UNCHANGED periphery

\* The Redis command of a call fails: the error is returned.
QueryStoreError ==
    /\ ~crashed
    /\ qpc \in {"zrevrange", "sadd"}
    /\ qres' = [err |-> "StoreError", Total |-> 0, Ticks |-> <<>>]
    /\ qpc' = "done"
    /\ UNCHANGED <<store, conn, crashed, appended, qarg, qtotal>>
    /\ UNCHANGED resolution
    /\ UNCHANGED periphery

\* The caller has the result; the next query may start.
QueryReturn ==
    /\ ~crashed
    /\ qpc = "done"
    /\ qpc' = "idle"
    /\ qarg' = NoArg
    /\ qtotal' = 0
    /\ qres' = NoRes
    /\ UNCHANGED <<store, conn, crashed, appended>>
    /\ UNCHANGED resolution
    /\ UNCHANGED periphery

(***************************************************************************)
(* The directory of controllers: putController and getController of the    *)
(* HTTP API (main.go), saveCoordinatorToken, saveCoordinatorLabel and      *)
(* loadCoordinator of the storage layer.  The hash of a controller is      *)
(* under "osp:controller:<id>:fields" in both.                             *)
(***************************************************************************)
\* The hash under keyOfController(id); a key that was never written is an
\* empty hash.
HashOf(id) == IF id \in DOMAIN fields THEN fields[id] ELSE {}

\* HSET on the hash of controller id.
HashSet(id, field, value) ==
    [k \in DOMAIN fields \cup {id} |->
        IF k = id THEN HSET(HashOf(id), field, value) ELSE fields[k]]

HEXISTS(hash, field) == \E e \in hash : e[1] = field

\* HGETALL: the reply is an array, empty for a missing key, never nil.
HGETALL(hash) == [nil |-> FALSE, pairs |-> hash]

\* putController: HSET <controller key> name <controller.Name>, status 200.
putController(controllerID, name) ==
    /\ ~crashed
    /\ fields' = HashSet(controllerID, "name", name)
    /\ UNCHANGED <<store, conn, crashed, appended, api, resolution>>
    /\ UNCHANGED <<socket, decoder, logging, dpc, darg, loaded>>

\* getController: HGET <controller key> name; on redis.ErrNil the name is
\* the id; the controller is written with status 200.
getController(controllerID) ==
    /\ ~crashed
    /\ loaded' = [op |-> "getController", coordinatorID |-> controllerID,
                  kind  |-> "record",
                  ID    |-> controllerID,
                  Name  |-> IF HEXISTS(HashOf(controllerID), "name")
                            THEN HGET(HashOf(controllerID), "name")
                            ELSE controllerID,
                  Token |-> <<>>, Label |-> <<>>]
    /\ UNCHANGED <<store, conn, crashed, appended, api, resolution>>
    /\ UNCHANGED <<socket, decoder, logging, fields, dpc, darg>>

\* loadCoordinator: HGETALL <coordinator key>; nil, nil on redis.ErrNil,
\* else the coordinator with the token and label the reply holds.
loadCoordinator(coordinatorID) ==
    /\ ~crashed
    /\ LET reply == HGETALL(HashOf(coordinatorID))
       IN  loaded' =
               IF reply.nil
               THEN [op |-> "loadCoordinator", coordinatorID |-> coordinatorID,
                     kind |-> "absent",
                     ID |-> <<>>, Name |-> <<>>, Token |-> <<>>, Label |-> <<>>]
               ELSE [op |-> "loadCoordinator", coordinatorID |-> coordinatorID,
                     kind  |-> "record",
                     ID    |-> coordinatorID,
                     Name  |-> <<>>,
                     Token |-> HGET(reply.pairs, "token"),
                     Label |-> HGET(reply.pairs, "label")]
    /\ UNCHANGED <<store, conn, crashed, appended, api, resolution>>
    /\ UNCHANGED <<socket, decoder, logging, fields, dpc, darg>>

\* The HGET or HGETALL of a reader fails: the error is returned.
DirectoryReadError(op, id) ==
    /\ ~crashed
    /\ loaded' = [op |-> op, coordinatorID |-> id, kind |-> "error",
                  ID |-> <<>>, Name |-> <<>>, Token |-> <<>>, Label |-> <<>>]
    /\ UNCHANGED <<store, conn, crashed, appended, api, resolution>>
    /\ UNCHANGED <<socket, decoder, logging, fields, dpc, darg>>

\* saveCoordinatorToken, saveCoordinatorLabel: SADD osp:controllers <id>.
\* op names the function; value is the label, or the token that
\* tokenForCoordinator(coordinatorID) will return.
saveCoordinator_SADD(op, coordinatorID, value) ==
    /\ ~crashed
    /\ dpc = "idle"
    /\ darg' = [op |-> op, coordinatorID |-> coordinatorID, value |-> value]
    /\ controllers' = controllers \cup {coordinatorID}
    /\ dpc' = "hset"
    /\ UNCHANGED <<sensorTicks, sensorToController, controllerSensors, conn,
                   crashed, appended, api, resolution>>
    /\ UNCHANGED <<socket, decoder, logging, fields, loaded>>

\* saveCoordinatorToken: HSET <coordinator key> token <token>;
\* saveCoordinatorLabel: HSET <coordinator key> label <label>; return nil.
saveCoordinator_HSET ==
    /\ ~crashed
    /\ dpc = "hset"
    /\ fields' = HashSet(darg.coordinatorID,
                         IF darg.op = "saveCoordinatorToken" THEN "token" ELSE "label",
                         darg.value)
    /\ dpc' = "idle"
    /\ darg' = NoCall
    /\ UNCHANGED <<store, conn, crashed, appended, api, resolution>>
    /\ UNCHANGED <<socket, decoder, logging, loaded>>

\* The HSET of saveCoordinatorToken or saveCoordinatorLabel fails: the
\* error is returned.
saveCoordinator_Error ==
    /\ ~crashed
    /\ dpc = "hset"
    /\ dpc' = "idle"
    /\ darg' = NoCall
    /\ UNCHANGED <<store, conn, crashed, appended, api, resolution>>
    /\ UNCHANGED <<socket, decoder, logging, fields, loaded>>

(***************************************************************************)
(* The operational log: the goroutine handleConnection starts, and saveLog *)
(* of the storage layer, push an entry on the list osp:logs and trim it.   *)
(* An entry (time.Now().String() + " " + buf.String()) is modelled as the  *)
(* number of its push.                                                     *)
(***************************************************************************)
\* The stop index of LTRIM keyLogs 0 1000.
TrimStop == 1000

\* A push at the wrong end of the list (RPUSH).
LPUSH_tail(list, value) == list \o <<value>>

\* LPUSH key value: the value becomes the head of the list.
LPUSH(list, value) == <<value>> \o list

\* LTRIM key start stop: the list keeps the elements start .. stop.
LTRIM(list, start, stop) == IndexRange(list, start, stop)

\* saveLog is called: its first command is still to be sent.
saveLog ==
    /\ ~crashed
    /\ lpc["saveLog"] = "none"
    /\ lpc' = [lpc EXCEPT !["saveLog"] = "lpush"]
    /\ UNCHANGED <<store, conn, crashed, appended, api, resolution>>
    /\ UNCHANGED <<socket, decoder, directory, logs, pushed, trimmed>>

\* The goroutine of handleConnection, or saveLog: LPUSH osp:logs <entry>.
saveLog_LPUSH(w) ==
    /\ ~crashed
    /\ lpc[w] = "lpush"
    /\ logs' = LPUSH(logs, pushed + 1)
    /\ pushed' = pushed + 1
    /\ trimmed' = FALSE
    /\ lpc' = [lpc EXCEPT ![w] = "ltrim"]
    /\ UNCHANGED <<store, conn, crashed, appended, api, resolution>>
    /\ UNCHANGED <<socket, decoder, directory>>

\* The goroutine of handleConnection, or saveLog: LTRIM osp:logs 0 1000,
\* and the end of the write.
saveLog_LTRIM(w) ==
    /\ ~crashed
    /\ lpc[w] = "ltrim"
    /\ logs' = LTRIM(logs, 0, TrimStop)
    /\ trimmed' = TRUE
    /\ lpc' = [lpc EXCEPT ![w] = "none"]
    /\ UNCHANGED <<store, conn, crashed, appended, api, resolution>>
    /\ UNCHANGED <<socket, decoder, directory, pushed>>

\* The LPUSH or the LTRIM fails: the goroutine logs the error and ends,
\* saveLog returns it.
saveLog_Error(w) ==
    /\ ~crashed
    /\ lpc[w] \in {"lpush", "ltrim"}
    /\ lpc' = [lpc EXCEPT ![w] = "none"]
    /\ UNCHANGED <<store, conn, crashed, appended, api, resolution>>
    /\ UNCHANGED <<socket, decoder, directory, logs, pushed, trimmed>>

\* handleConnection has returned and its goroutine has ended: the next
\* connection is served in its place.
handleConnection_return(c) ==
    /\ ~crashed
    /\ pc[c] = "done"
    /\ lpc[c] = "none"
    /\ pc' = [pc EXCEPT ![c] = "idle"]
    /\ segs' = [segs EXCEPT ![c] = <<>>]
    /\ idx' = [idx EXCEPT ![c] = 0]
    /\ tick' = [tick EXCEPT ![c] = NoTick]
    /\ processedCount' = [processedCount EXCEPT ![c] = 0]
    /\ ret' = [ret EXCEPT ![c] = NoRet]
    /\ rule' = [rule EXCEPT ![c] = "none"]
    /\ overwritten' = [overwritten EXCEPT ![c] = FALSE]
    /\ UNCHANGED <<store, crashed, appended, api, periphery>>

(***************************************************************************)
(* SpecQuery: one connection that sends a batch of up to MaxConcBatch      *)
(* records while queries are served.                                       *)
(***************************************************************************)
QueryRecords ==
    {RecFirst, RecSecond, RecFirstOther, RecFirstHalf, RecThirdText, RecSensor5}

QuerySensors == {42, 5}

\* <<startIndex, stopIndex>>: the first element, the second, everything.
Ranges == {<<0, 0>>, <<1, 1>>, <<0, -1>>}

AcceptQuery ==
    /\ pc["c1"] = "idle"
    /\ \E b \in Batches(QueryRecords, MaxConcBatch) : handleConnection("c1", Payload(b))

\* The sensors of the queries by score, as the texts of their keys.
ScoreSensors == {FormatInt(s) : s \in QuerySensors}

\* The score of a tick of 2024-1-1 10:0:0.
Score1 == Unix(ParseTime(Time1).t)

\* <<start, end>>: one second, two seconds, the two seconds after the first,
\* and a start past the end.
ScoreRanges ==
    {<<Score1, Score1>>, <<Score1, Score1 + 1>>, <<Score1 + 1, Score1 + 2>>,
     <<Score1 + 1, Score1>>}

Query ==
    \/ \E s \in QuerySensors, r \in Ranges : FindTicks_ZCARD(s, r[1], r[2])
    \/ FindTicks_ZREVRANGE
    \/ \E s \in QuerySensors, r \in Ranges : findTicksByRange(s, r[1], r[2])
    \/ \E s \in ScoreSensors, r \in ScoreRanges : findTicksByScore(s, r[1], r[2])
    \/ QueryStoreError
    \/ QueryReturn

NextQuery == AcceptQuery \/ Ingest("c1") \/ Query

SpecQuery == Init /\ [][NextQuery]_vars

(***************************************************************************)
(* SpecRegister: one connection that sends a batch of up to MaxConcBatch   *)
(* records while sensors are registered under coordinators by hand.        *)
(***************************************************************************)
RegisterRecords == {RecFirst, RecSecondHint7, RecFirstHint9}

RegisterSensors == {42}

\* One coordinator that ticks name as well, one that no tick names.
Coordinators == {<<"7">>, <<"8">>}

AcceptRegister ==
    /\ pc["c1"] = "idle"
    /\ \E b \in Batches(RegisterRecords, MaxConcBatch) :
          handleConnection("c1", Payload(b))

Register ==
    \/ \E s \in RegisterSensors, co \in Coordinators :
          addSensorToCoordinator_HSET(s, co)
    \/ addSensorToCoordinator_SADD
    \/ QueryStoreError
    \/ QueryReturn

NextRegister == AcceptRegister \/ Ingest("c1") \/ Register

SpecRegister == Init /\ [][NextRegister]_vars

(***************************************************************************)
(* SpecDirectory: one connection that sends one record while the HTTP API  *)
(* serves one request at a time: a query, a registration, a write to the   *)
(* directory of controllers or a read of it.                               *)
(***************************************************************************)
\* The caller has the controller or the error.
DirectoryReturn ==
    /\ ~crashed
    /\ loaded # NoLoad
    /\ loaded' = NoLoad
    /\ UNCHANGED <<store, conn, crashed, appended, api, resolution>>
    /\ UNCHANGED <<socket, decoder, logging, fields, dpc, darg>>

LookUp ==
    \/ \E s \in RegisterSensors : FindTicks_ZCARD(s, 0, 0)
    \/ FindTicks_ZREVRANGE
    \/ \E s \in RegisterSensors : findTicksByRange(s, 0, 0)
    \/ \E s \in RegisterSensors : findTicksByScore(FormatInt(s), Score1, Score1 + 1)

\* The controllers are two that the record does not name; the name, the
\* token and the label are one text each.
DirectoryWrite ==
    \/ \E id \in Coordinators : putController(id, <<"n">>)
    \/ \E id \in Coordinators : saveCoordinator_SADD("saveCoordinatorToken", id, <<"t">>)
    \/ \E id \in Coordinators : saveCoordinator_SADD("saveCoordinatorLabel", id, <<"l">>)
    \/ saveCoordinator_HSET
    \/ saveCoordinator_Error

DirectoryRead ==
    \/ \E id \in Coordinators : getController(id)
    \/ \E id \in Coordinators : loadCoordinator(id)
    \/ \E id \in Coordinators, op \in {"getController", "loadCoordinator"} :
          DirectoryReadError(op, id)

NextDirectory ==
    \/ handleConnection("c1", Payload(<<RecFirst>>))
    \/ Ingest("c1")
    \/ dpc = "idle" /\ loaded = NoLoad /\ (LookUp \/ Register)
    \/ qpc = "idle" /\ loaded = NoLoad /\ DirectoryWrite
    \/ qpc = "idle" /\ dpc = "idle" /\ loaded = NoLoad /\ DirectoryRead
    \/ DirectoryReturn

SpecDirectory == Init /\ [][NextDirectory]_vars

(***************************************************************************)
(* SpecLog: connections served one after the other, each sending a record  *)
(* that does not decode or one that is too short to decode, while saveLog  *)
(* is called; up to MaxLogWrites log writes are started, and two more may  *)
(* be under way.                                                           *)
(***************************************************************************)
MaxLogWrites == 1002

LogRecords == {RecBad, RecShort}

NextLog ==
    \/ /\ pushed < MaxLogWrites
       /\ \E r \in LogRecords : handleConnection("c1", Payload(<<r>>))
    \/ ProcessTicks("c1")
    \/ handleConnection_return("c1")
    \/ pushed < MaxLogWrites /\ saveLog
    \/ \E w \in {"c1", "saveLog"} : saveLog_LPUSH(w)
    \/ \E w \in {"c1", "saveLog"} : saveLog_LTRIM(w)
    \/ \E w \in {"c1", "saveLog"} : saveLog_Error(w)

SpecLog == Init /\ [][NextLog]_vars

(***************************************************************************)
(* SpecRead: one connection whose bytes arrive split in any way.  The      *)
(* device sends up to MaxReadBatch short records, separated and ended in   *)
(* the ways devices do.                                                    *)
(***************************************************************************)
MaxReadBatch == 2

\* Short records: a tick of sensor 5 with empty readings, one of sensor 7
\* with a controller hint.
RecBrief == Wire(<<Time1, <<"5">>, <<>>, <<>>, <<>>, <<>>, <<>>>>)

RecBriefHint == Wire(<<Time2, <<"7">>, <<>>, <<>>, <<>>, <<>>, <<>>, <<"9">>>>)

ReadRecords == {RecBrief, RecBriefHint}

\* What is sent before the first record, between two records and after the
\* last one; <<"\n", "\r", "\n">> ends the last record and adds the record
\* that consists of CR LF alone.
Leads == {<<>>, <<"\n">>}

Separators == {<<"\n">>, <<"\r", "\n">>}

Trailers == {<<>>, <<"\r", "\n">>, <<"\n", "\r", "\n">>}

Streams ==
    {lead \o Join(b, sep) \o trail :
        lead \in Leads, sep \in Separators, trail \in Trailers,
        b \in Batches(ReadRecords, MaxReadBatch)}

AcceptRead ==
    /\ rpc["c1"] = "none"
    /\ \E bytes \in Streams, closes \in BOOLEAN : Connect("c1", bytes, closes)

ReadLoop ==
    \/ \E n \in 1..ReadSize : handleConnection_Read("c1", n)
    \/ handleConnection_EOF("c1")
    \/ handleConnection_ReadError("c1")

NextRead == AcceptRead \/ ReadLoop \/ Ingest("c1")

SpecRead == Init /\ [][NextRead]_vars

(***************************************************************************)
(* SpecDecode: the sensor1 values 0 .. MaxRaw are decoded one after the    *)
(* other.                                                                  *)
(***************************************************************************)
NextDecode == FindTicks_decodeTemperature

SpecDecode == Init /\ [][NextDecode]_vars

(***************************************************************************)
(* Spec: two connections at once.  The first sends a batch of up to        *)
(* MaxConcBatch records, the second a single record.                       *)
(***************************************************************************)
ConcRecords ==
    {RecFirst, RecFirstOther, RecSecondHint7, RecFirstHint9, RecSensor5, RecBad}

Accept ==
    \/ /\ pc["c1"] = "idle"
       /\ \E b \in Batches(ConcRecords, MaxConcBatch) :
              handleConnection("c1", Payload(b))
    \/ /\ pc["c2"] = "idle"
       /\ \E r \in ConcRecords : handleConnection("c2", Payload(<<r>>))

Next == Accept \/ \E c \in Conns : Ingest(c)

Spec == Init /\ [][Next]_vars

(***************************************************************************)
(* SpecBatch: one connection that sends a batch of up to MaxBatch records  *)
(* of any kind.                                                            *)
(***************************************************************************)
Records ==
    {RecFirst, RecSecond, RecFirstPadded, RecFirstOther, RecThirdText,
     RecSecondHint7, RecFirstHint9, RecBad, RecShort, RecSix, RecTimeOnly,
     RecOneChar}

AcceptBatch ==
    /\ pc["c1"] = "idle"
    /\ \E b \in Batches(Records, MaxBatch) : handleConnection("c1", Payload(b))

NextBatch == AcceptBatch \/ Ingest("c1")

SpecBatch == Init /\ [][NextBatch]_vars

(***************************************************************************)
(* Claims about the time series.                                           *)
(***************************************************************************)
SensorsSeen == DOMAIN sensorTicks \cup DOMAIN appended

\* An identical tick (same sensor, timestamp and payload) was saved before.
SavedBefore(t) == <<t.Datetime, PayloadOf(t)>> \in Appended(t.SensorID)

\* C1: saving a tick whose sensor, timestamp and serialized payload equal
\* those of a tick saved before changes neither the sensor's collection nor
\* its count, and the call succeeds: processTick goes on to resolve the
\* controller and no error is returned.
C1_DuplicateSaveIsNoOp ==
    [][\A c \in Conns :
          (Save(c) /\ SavedBefore(tick[c]))
              => /\ sensorTicks' = sensorTicks
                 /\ ZCARD(TicksOf(sensorTicks', tick[c].SensorID))
                        = count(tick[c].SensorID)
                 /\ pc'[c] \in {"hget", "sadd_controllers"}
                 /\ ret'[c] = ret[c]]_vars

\* C1 witness: the first connection has saved the same record twice and
\* the sensor holds one tick.
C1_Witness ==
    /\ pc["c1"] = "hget"
    /\ idx["c1"] = 2
    /\ segs["c1"][1] = RecFirst
    /\ segs["c1"][2] = RecFirst
    /\ count(42) = 1

\* C2: for every sensor, count(sensorID) is the number of distinct
\* (timestamp, payload) pairs saved for it so far, whichever connections
\* saved them and in whatever order; and a save for one sensor leaves the
\* collection of every other sensor as it was.
C2_CountIsDistinctAppends ==
    /\ [](\A s \in SensorsSeen : count(s) = Cardinality(Appended(s)))
    /\ [][\A c \in Conns :
             Save(c) => \A s \in SensorsSeen \ {tick[c].SensorID} :
                           TicksOf(sensorTicks', s) = Ticks(s)]_vars

\* C2 witness: both connections have saved ticks of sensor 42, two of them
\* the same, and a tick of sensor 5 is stored as well.
C2_Witness ==
    /\ pc["c1"] = "done" /\ ret["c1"] = [count |-> 2, err |-> "nil"]
    /\ pc["c2"] = "done" /\ ret["c2"] = [count |-> 1, err |-> "nil"]
    /\ segs["c1"][1] = RecFirstHint9 /\ segs["c1"][2] = RecSensor5
    /\ segs["c2"][1] = RecFirst
    /\ count(42) = 1 /\ count(5) = 1

\* t1 is an earlier instant than t2.
Before(t1, t2) ==
    LET a == <<t1.year, t1.month, t1.day, t1.hour, t1.min, t1.sec, t1.nsec>>
        b == <<t2.year, t2.month, t2.day, t2.hour, t2.min, t2.sec, t2.nsec>>
    IN  \E k \in 1..7 : a[k] < b[k] /\ \A j \in 1..(k - 1) : a[j] = b[j]

\* The timestamps of the ticks saved for a sensor.
Stamps(s) == {e[1] : e \in Appended(s)}

\* The ticks saved for the sensor have pairwise distinct timestamps.
DistinctStamps(s) ==
    /\ Appended(s) # {}
    /\ Cardinality(Stamps(s)) = Cardinality(Appended(s))

Newest(s) == CHOOSE t \in Stamps(s) : \A u \in Stamps(s) : u = t \/ Before(u, t)

\* C3: when the ticks saved for a sensor have pairwise distinct timestamps,
\* the query for ranks 0 to 0 (FindTicks of the HTTP API, findTicksByRange
\* of the storage layer) returns exactly one tick, the one with the greatest
\* timestamp, in whatever order the ticks arrived.
C3_RankZeroIsNewest ==
    [][/\ (FindTicks_ZREVRANGE /\ qarg.startIndex = 0 /\ qarg.stopIndex = 0
              /\ DistinctStamps(qarg.sensorID))
          => /\ qres'.err = "nil"
             /\ Len(qres'.Ticks) = 1
             /\ qres'.Ticks[1].tick.Datetime = Newest(qarg.sensorID)
       /\ \A s \in QuerySensors :
             (findTicksByRange(s, 0, 0) /\ DistinctStamps(s))
                 => /\ qres'.err = "nil"
                    /\ Len(qres'.Ticks) = 1
                    /\ qres'.Ticks[1].Datetime = Newest(s)]_vars

(***************************************************************************)
(* Claims about the resolution of the controller and the directory.        *)
(***************************************************************************)
\* The sensor of the tick a connection has in hand, as the hash field.
SensorOf(c) == FormatInt(tick[c].SensorID)

\* The controller hint of the record a connection has in hand.
Hint(c) == NewTick(segs[c][idx[c]]).tick.controllerID

\* The step of a connection that completes the processing of its tick.
Completes(c) == processTick_SADD_sensors(c)

\* C4 as the specification states it: a tick without a hint whose sensor
\* has no stored association resolves to the default controller "1", and
\* when its processing completes a lookup of the sensor returns "1".
C4_DefaultIsPersisted ==
    [][\A c \in Conns :
          /\ (processTick_HGET(c) /\ findCoordinatorIDBySensorID(SensorOf(c)) = <<>>)
                => /\ tick'[c].controllerID = DefaultController
                   /\ rule'[c] = "default"
          /\ (Completes(c) /\ rule[c] = "default")
                => /\ tick[c].controllerID = DefaultController
                   /\ findCoordinatorIDBySensorID(SensorOf(c))' = DefaultController]_vars

\* C4, amended: a tick without a hint whose sensor has no stored association
\* resolves to the default controller "1", and when its processing completes
\* a lookup of the sensor returns "1" provided no other connection has
\* written the sensor's association after this tick's own write.
C4_DefaultIsPersistedUnlessOverwritten ==
    [][\A c \in Conns :
          /\ (processTick_HGET(c) /\ findCoordinatorIDBySensorID(SensorOf(c)) = <<>>)
                => /\ tick'[c].controllerID = DefaultController
                   /\ rule'[c] = "default"
          /\ (Completes(c) /\ rule[c] = "default" /\ ~overwritten[c])
                => /\ tick[c].controllerID = DefaultController
                   /\ findCoordinatorIDBySensorID(SensorOf(c))' = DefaultController]_vars

\* C4 witness: the first connection has completed a tick of sensor 42 that
\* resolved to the default, while the second connection is at work, and
\* the lookup returns "1".
C4_Witness ==
    /\ pc["c1"] = "loop" /\ processedCount["c1"] = 1
    /\ rule["c1"] = "default" /\ ~overwritten["c1"]
    /\ tick["c1"].SensorID = 42
    /\ pc["c2"] \in StoreCalls
    /\ findCoordinatorIDBySensorID(<<"4", "2">>) = DefaultController

\* A record that NewTick does not turn into a tick.
FailsToDecode(rec) == NewTick(rec).kind # "ok"

\* The record was saved and its sensor has an association.
Persisted(rec) ==
    LET t == NewTick(rec).tick
    IN  /\ [score |-> rank(t), member |-> Marshal(t)] \in Ticks(t.SensorID)
        /\ findCoordinatorIDBySensorID(FormatInt(t.SensorID)) # <<>>

\* C5: when record k of a batch fails to decode, ProcessTicks returns the
\* failure; the records before k stay saved and associated; no record after
\* k is decoded, saved or resolved.  The batch of a valid, a bad and a valid
\* record of sensor 42 leaves the sensor with exactly one tick.
C5_DecodeFailureAborts ==
    /\ [][(/\ ProcessTicks("c1")
           /\ idx'["c1"] <= Len(segs["c1"])
           /\ FailsToDecode(segs["c1"][idx'["c1"]]))
             => /\ pc'["c1"] = "done"
                /\ ret'["c1"] = [count |-> 0, err |-> "DecodeError"]
                /\ ~crashed'
                /\ store' = store]_vars
    /\ []((pc["c1"] = "done" /\ ret["c1"].err = "DecodeError")
             => \A j \in 1..(idx["c1"] - 1) : Persisted(segs["c1"][j]))
    /\ [][pc["c1"] \in {"done", "panic"} => (store' = store /\ pc' = pc)]_vars
    /\ []((/\ pc["c1"] \in {"done", "panic"}
           /\ Len(segs["c1"]) >= 3
           /\ ~FailsToDecode(segs["c1"][1]) /\ NewTick(segs["c1"][1]).tick.SensorID = 42
           /\ FailsToDecode(segs["c1"][2])
           /\ ~FailsToDecode(segs["c1"][3]) /\ NewTick(segs["c1"][3]).tick.SensorID = 42
           /\ ret["c1"].err # "StoreError")
             => count(42) = 1)

\* The controller the precedence of the specification selects for the tick
\* in hand: the hint, else the stored association, else the default.
Expected(c) ==
    IF Hint(c) # <<>> THEN Hint(c)
    ELSE IF findCoordinatorIDBySensorID(SensorOf(c)) # <<>>
         THEN findCoordinatorIDBySensorID(SensorOf(c))
         ELSE DefaultController

\* C6: the step that resolves the controller of a tick (Save when the tick
\* has a hint, the lookup when it has none) selects the hint if there is
\* one, whatever is stored; otherwise the stored association if there is
\* one; otherwise the default, which is selected only when both are empty.
\* The controller selected is the one the three writes then use.
C6_Precedence ==
    [][\A c \in Conns :
          /\ ((Save(c) \/ processTick_HGET(c)) /\ pc'[c] = "sadd_controllers")
                => /\ tick'[c].controllerID = Expected(c)
                   /\ (rule'[c] = "default")
                         <=> (/\ Hint(c) = <<>>
                              /\ findCoordinatorIDBySensorID(SensorOf(c)) = <<>>)
          /\ (Save(c) /\ pc'[c] = "hget") => Hint(c) = <<>>
          /\ pc[c] \in {"sadd_controllers", "hset", "sadd_sensors"}
                => tick'[c].controllerID = tick[c].controllerID
          /\ processTick_SADD_controllers(c) => tick[c].controllerID \in controllers'
          /\ processTick_HSET(c)
                => findCoordinatorIDBySensorID(SensorOf(c))' = tick[c].controllerID]_vars

\* C6 witness: a tick with the hint "9" is resolved to "9" while the stored
\* association of its sensor is the default controller.
C6_Witness ==
    /\ pc["c1"] = "sadd_controllers"
    /\ Hint("c1") = <<"9">>
    /\ tick["c1"].controllerID = <<"9">>
    /\ findCoordinatorIDBySensorID(SensorOf("c1")) = DefaultController

\* C7 as the specification states it: when processTick returns without an
\* error for a tick of sensor s resolved to controller c, whichever rule
\* selected c, the association of s is c, c is a known controller and s is
\* in the member set of c.
C7_WritesBackAllThree ==
    [][\A c \in Conns :
          Completes(c)
             => /\ findCoordinatorIDBySensorID(SensorOf(c))' = tick[c].controllerID
                /\ tick[c].controllerID \in controllers'
                /\ SensorOf(c) \in SMEMBERS(controllerSensors', tick[c].controllerID)]_vars

\* C7, amended: when processTick returns without an error for a tick of
\* sensor s resolved to controller c, whichever rule selected c, c is a
\* known controller, s is in the member set of c, and the association of s
\* is c provided no other connection has written the association of s after
\* this tick's own write.
C7_WritesBackUnlessOverwritten ==
    [][\A c \in Conns :
          Completes(c)
             => /\ ~overwritten[c]
                      => findCoordinatorIDBySensorID(SensorOf(c))' = tick[c].controllerID
                /\ tick[c].controllerID \in controllers'
                /\ SensorOf(c) \in SMEMBERS(controllerSensors', tick[c].controllerID)]_vars

\* C7 witness: the first connection has completed a tick resolved by its
\* hint and one resolved by the stored association, the second one a tick
\* resolved to the default; all three facts are stored for "9".
C7_Witness ==
    /\ pc["c1"] = "loop" /\ processedCount["c1"] = 2 /\ rule["c1"] = "stored"
    /\ pc["c2"] = "loop" /\ processedCount["c2"] = 1 /\ rule["c2"] = "default"
    /\ tick["c1"].controllerID = <<"9">>
    /\ ~overwritten["c1"]
    /\ findCoordinatorIDBySensorID(<<"4", "2">>) = <<"9">>
    /\ <<"9">> \in controllers
    /\ <<"4", "2">> \in SMEMBERS(controllerSensors, <<"9">>)

\* The controllers the association hash holds for a sensor.
AssociationsOf(hash, s) == {e[2] : e \in {x \in hash : x[1] = s}}

\* The tick in hand and the tick processed just before it are of the same
\* sensor and both carry a hint.
BothHinted(c) ==
    /\ idx[c] > 1
    /\ Hint(c) # <<>>
    /\ NewTick(segs[c][idx[c] - 1]).tick.controllerID # <<>>
    /\ NewTick(segs[c][idx[c] - 1]).tick.SensorID = tick[c].SensorID

\* C8: in every reachable state a sensor has at most one associated
\* controller, and the last write wins: the write of a tick's controller,
\* or of a registration, leaves that controller as the only association of
\* the sensor, whatever was stored before, and nothing but such a write
\* changes an association.  When a tick hinted H2 completes right after a
\* tick of the same sensor hinted H1, and H2 is still the last write, the
\* association is H2 and H1 is gone from the hash.
C8_LastWriteWins ==
    /\ [](\A e1 \in sensorToController, e2 \in sensorToController :
             e1[1] = e2[1] => e1 = e2)
    /\ [][/\ \A c \in Conns :
                processTick_HSET(c)
                   => /\ AssociationsOf(sensorToController', SensorOf(c))
                             = {tick[c].controllerID}
                      /\ \A e \in sensorToController :
                            e[1] # SensorOf(c) => e \in sensorToController'
          /\ \A s \in RegisterSensors, co \in Coordinators :
                addSensorToCoordinator_HSET(s, co)
                   => AssociationsOf(sensorToController', FormatInt(s)) = {co}
          /\ sensorToController' # sensorToController
                => \/ \E c \in Conns : processTick_HSET(c)
                   \/ \E s \in RegisterSensors, co \in Coordinators :
                         addSensorToCoordinator_HSET(s, co)
          /\ \A c \in Conns :
                (/\ Completes(c)
                 /\ BothHinted(c)
                 /\ ~overwritten[c])
                   => AssociationsOf(sensorToController', SensorOf(c)) = {Hint(c)}]_vars

\* C8 witness: the connection has processed a tick of sensor 42 hinted "7"
\* and then one hinted "9"; the hash holds "9" for the sensor and nothing
\* else.
C8_Witness ==
    /\ pc["c1"] = "done" /\ ret["c1"] = [count |-> 2, err |-> "nil"]
    /\ segs["c1"][1] = RecSecondHint7 /\ segs["c1"][2] = RecFirstHint9
    /\ sensorToController = {<<(<<"4", "2">>), (<<"9">>)>>}

\* C9: member sets only grow.  When the processing of a tick, or a
\* registration, completes for sensor s and controller C2, s is in the
\* member set of C2 and still in every member set it was in before, so s
\* can be listed under several controllers while it has one association.
C9_MembershipIsNeverCleaned ==
    [][/\ \A k \in DOMAIN controllerSensors :
             /\ k \in DOMAIN controllerSensors'
             /\ controllerSensors[k] \subseteq controllerSensors'[k]
       /\ \A c \in Conns :
             Completes(c)
                => /\ SensorOf(c) \in SMEMBERS(controllerSensors', tick[c].controllerID)
                   /\ \A k \in DOMAIN controllerSensors :
                         SensorOf(c) \in controllerSensors[k]
                            => SensorOf(c) \in SMEMBERS(controllerSensors', k)
       /\ addSensorToCoordinator_SADD
             => /\ FormatInt(qarg.sensorID)
                      \in SMEMBERS(controllerSensors', qarg.coordinatorID)
                /\ \A k \in DOMAIN controllerSensors :
                      FormatInt(qarg.sensorID) \in controllerSensors[k]
                         => FormatInt(qarg.sensorID) \in SMEMBERS(controllerSensors', k)]_vars

\* C9 witness: sensor 42 was put under "7" by a hinted tick, under "9" by
\* the next hinted tick and under "8" by a registration: it is a member of
\* all three and its one association is "8".
C9_Witness ==
    /\ \A k \in {<<"7">>, <<"8">>, <<"9">>} : <<"4", "2">> \in SMEMBERS(controllerSensors, k)
    /\ AssociationsOf(sensorToController, <<"4", "2">>) = {<<"8">>}
    /\ pc["c1"] = "done" /\ qpc = "done" /\ qres.err = "nil"

\* The record in hand is the record processed just before it.
Repeated(c) ==
    /\ idx[c] > 1
    /\ idx[c] <= Len(segs[c])
    /\ segs[c][idx[c]] = segs[c][idx[c] - 1]

\* C10: with one connection and no other writer, no store call made for a
\* record that repeats the record processed just before it changes the
\* association hash, the known controllers, a member set or a tick
\* collection: the store after the second processing is the store after the
\* first.
C10_ResolutionIsIdempotent ==
    [][(pc["c1"] \in StoreCalls /\ Repeated("c1")) => store' = store]_vars

\* C10 witness: the connection has processed the same hint-less record
\* twice, the second time resolved by the association the first one stored.
C10_Witness ==
    /\ pc["c1"] = "done" /\ ret["c1"] = [count |-> 2, err |-> "nil"]
    /\ segs["c1"][1] = RecFirst /\ segs["c1"][2] = RecFirst
    /\ rule["c1"] = "stored"
    /\ count(42) = 1

(***************************************************************************)
(* Claims about the batch.                                                 *)
(***************************************************************************)
\* The records (non-empty segments) of a connection before position k.
RecordsBefore(c, k) == {j \in 1..(k - 1) : j <= Len(segs[c]) /\ Len(segs[c][j]) > 0}

\* Record i of the connection is a tick of the sensor in hand with a hint.
HintedFor(c, i) ==
    /\ NewTick(segs[c][i]).kind = "ok"
    /\ NewTick(segs[c][i]).tick.SensorID = tick[c].SensorID
    /\ NewTick(segs[c][i]).tick.controllerID # <<>>

\* Records are processed one after the other in payload order: a store
\* call is made for a record only when all records before it are processed.
InPayloadOrder ==
    /\ [](pc["c1"] \in StoreCalls
            => processedCount["c1"] = Cardinality(RecordsBefore("c1", idx["c1"])))
    /\ [][idx'["c1"] >= idx["c1"]]_vars

\* C11 as the specification states it: records are processed in payload
\* order, and with one connection (no concurrent writer) a record without a
\* hint resolves to the hint H of any earlier record of the same batch for
\* the same sensor, not to the default.
C11_SeesEarlierHints ==
    /\ InPayloadOrder
    /\ [][processTick_HGET("c1")
            => \A i \in RecordsBefore("c1", idx["c1"]) :
                  HintedFor("c1", i)
                     => tick'["c1"].controllerID
                            = NewTick(segs["c1"][i]).tick.controllerID]_vars

\* C11, amended: records are processed in payload order, and with one
\* connection (no concurrent writer) a record without a hint resolves to
\* the hint H of the last earlier record of the same batch for the same
\* sensor that carries a hint, not to the default.
C11_SeesLastEarlierHint ==
    /\ InPayloadOrder
    /\ [][processTick_HGET("c1")
            => \A i \in RecordsBefore("c1", idx["c1"]) :
                  (/\ HintedFor("c1", i)
                   /\ \A k \in RecordsBefore("c1", idx["c1"]) :
                         k > i => ~HintedFor("c1", k))
                     => /\ tick'["c1"].controllerID
                              = NewTick(segs["c1"][i]).tick.controllerID
                        /\ rule'["c1"] = "stored"]_vars

\* C11 witness: the record after a tick of sensor 42 hinted "9" has no hint
\* and was resolved to "9" by the stored association.
C11_Witness ==
    /\ pc["c1"] = "sadd_controllers" /\ idx["c1"] = 2
    /\ segs["c1"][1] = RecFirstHint9 /\ segs["c1"][2] = RecSecond
    /\ rule["c1"] = "stored"
    /\ tick["c1"].controllerID = <<"9">>

\* The number of separator-delimited fields of a record, 0 for a record
\* shorter than its two delimiters.
FieldCount(rec) ==
    IF Len(rec) < 2 THEN 0 ELSE Len(Split(SubSeq(rec, 2, Len(rec) - 1), ";"))

\* C12: for every record of fewer than 7 fields (2 to 6 fields after a
\* valid timestamp and sensor id, the timestamp alone, a record shorter
\* than the two delimiters) NewTick returns an error value, which
\* ProcessTicks returns, and the process does not crash.
C12_ShortRecordIsDecodeError ==
    [][(/\ ProcessTicks("c1")
        /\ idx'["c1"] <= Len(segs["c1"])
        /\ FieldCount(segs["c1"][idx'["c1"]]) < 7)
          => /\ NewTick(segs["c1"][idx'["c1"]]).kind = "err"
             /\ ~crashed'
             /\ pc'["c1"] = "done"
             /\ ret'["c1"] = [count |-> 0, err |-> "DecodeError"]]_vars

\* The parts of a record between its delimiters.
Fields(rec) == Split(SubSeq(rec, 2, Len(rec) - 1), ";")

\* A record that fails decoding as the specification defines it: fewer
\* than 7 fields, a timestamp that does not parse, a sensor id that is no
\* number.
Undecodable(rec) ==
    \/ FieldCount(rec) < 7
    \/ ~ParseTime(Fields(rec)[1]).ok
    \/ ~ParseInt(Fields(rec)[2]).ok

\* C13: the step that meets a record that fails decoding changes neither a
\* tick collection nor the association hash, the known controllers or a
\* member set, and it ends the call: no store call is made for the record
\* afterwards either.
C13_RejectedWholesale ==
    /\ [][(/\ ProcessTicks("c1")
           /\ idx'["c1"] <= Len(segs["c1"])
           /\ Undecodable(segs["c1"][idx'["c1"]]))
             => /\ store' = store
                /\ pc'["c1"] \in {"done", "panic"}]_vars
    /\ [][pc["c1"] \in {"done", "panic"} => (store' = store /\ pc' = pc)]_vars

\* C13 witness: a batch of a valid record and a record whose timestamp does
\* not parse has returned the error; the store holds the first record and
\* nothing else.
C13_Witness ==
    /\ pc["c1"] = "done" /\ ret["c1"] = [count |-> 0, err |-> "DecodeError"]
    /\ segs["c1"][1] = RecFirst /\ segs["c1"][2] = RecBad
    /\ DOMAIN sensorTicks = {42} /\ count(42) = 1
    /\ sensorToController = {<<(<<"4", "2">>), DefaultController>>}
    /\ controllers = {DefaultController}
    /\ DOMAIN controllerSensors = {DefaultController}

\* The non-empty pieces of a payload cut at every carriage return and every
\* line feed, found by one scan over its bytes; piece is the piece the scan
\* is in.
RECURSIVE Pieces(_, _)
Pieces(payload, piece) ==
    LET done == IF Len(piece) > 0 THEN <<piece>> ELSE <<>>
    IN  IF Len(payload) = 0 THEN done
        ELSE IF Head(payload) \in {"\r", "\n"}
             THEN done \o Pieces(Tail(payload), <<>>)
             ELSE Pieces(Tail(payload), Append(piece, Head(payload)))

NonEmptySegments(payload) == Pieces(payload, <<>>)

\* C14: for the payload a connection read, the record ProcessTicks is at
\* is always the next non-empty segment of the payload cut at every CR and
\* LF (so the records are these segments, each once, in payload order,
\* and empty segments are skipped), each completed record counts once, and
\* when every record decoded and every store call succeeded the call
\* returns the number of these segments.
C14_ProcessesNonEmptySegments ==
    /\ [](pc["c1"] \in StoreCalls
            => /\ processedCount["c1"] + 1 <= Len(NonEmptySegments(buf["c1"]))
               /\ segs["c1"][idx["c1"]]
                     = NonEmptySegments(buf["c1"])[processedCount["c1"] + 1])
    /\ [][Completes("c1") => processedCount'["c1"] = processedCount["c1"] + 1]_vars
    /\ []((pc["c1"] = "done" /\ ret["c1"].err = "nil")
            => ret["c1"].count = Len(NonEmptySegments(buf["c1"])))

\* C14 witness: a payload that begins with a line feed, separates its two
\* records by CR LF and ends with a line feed and CR LF was processed and
\* 2 was returned.
C14_Witness ==
    /\ pc["c1"] = "done" /\ ret["c1"] = [count |-> 2, err |-> "nil"]
    /\ buf["c1"] = <<"\n">> \o RecBrief \o <<"\r", "\n">> \o RecBriefHint
                      \o <<"\n", "\r", "\n">>
    /\ Len(segs["c1"]) = 7

\* The bytes hold a record that consists of CR LF alone: the pair stands at
\* the start or right after a line feed.
EndRecordIn(bytes) ==
    \E k \in 1..(Len(bytes) - 1) :
        /\ bytes[k] = "\r" /\ bytes[k + 1] = "\n"
        /\ (k = 1 \/ bytes[k - 1] = "\n")

\* C15: however the bytes are split across reads, once the bytes read hold
\* a record that consists of CR LF alone the read loop has ended (it does
\* not wait for the end of the stream), and no record ProcessTicks gets
\* holds a carriage return or a line feed.
C15_StopsAtEndRecord ==
    /\ [](EndRecordIn(buf["c1"]) => rpc["c1"] = "done")
    /\ [](\A k \in 1..Len(segs["c1"]) :
             \A j \in 1..Len(segs["c1"][k]) : segs["c1"][k][j] \notin {"\r", "\n"})

\* C23: when a read fails with an error other than the end of the stream,
\* handleConnection ends without processing anything: ProcessTicks is not
\* started and no record the connection had received is appended or
\* resolved, then or later; whereas at the end of the stream everything the
\* device sent is in the buffer and every record in it is handed to
\* ProcessTicks.
C23_ReadErrorProcessesNothing ==
    /\ [][handleConnection_ReadError("c1")
             => /\ pc'["c1"] = "idle" /\ segs'["c1"] = <<>>
                /\ store' = store]_vars
    /\ [](rpc["c1"] = "failed"
             => /\ pc["c1"] = "idle" /\ segs["c1"] = <<>>
                /\ sensorTicks = <<>> /\ sensorToController = {}
                /\ controllers = {} /\ controllerSensors = <<>>)
    /\ [][handleConnection_EOF("c1")
             => /\ stream["c1"] = <<>>
                /\ pc'["c1"] = "loop" /\ idx'["c1"] = 1
                /\ LET handed == segs'["c1"]
                   IN  SelectSeq(handed, LAMBDA x : Len(x) > 0)
                           = NonEmptySegments(buf["c1"])]_vars

\* Two records were received in full, the next read failed, and nothing was
\* processed.
C23_Witness ==
    /\ rpc["c1"] = "failed"
    /\ buf["c1"] = RecBrief \o <<"\n">> \o RecBriefHint
    /\ pc["c1"] = "idle"
    /\ sensorTicks = <<>>

(***************************************************************************)
(* Claims about the decoding of the temperature.                           *)
(***************************************************************************)
\* Twice the magnitude of the temperature decoded last.
Magnitude2 == IF halfDegrees < 0 THEN 0 - halfDegrees ELSE halfDegrees

\* Twice the weights 0.5, 1, 2, ..., 64 of bits 7 .. 14.
Weight2(k) == 2 ^ (k - 7)

RECURSIVE WeightSum2(_, _)
WeightSum2(n, k) ==
    IF k > 14 THEN 0
    ELSE (IF (n \div 2 ^ k) % 2 = 1 THEN Weight2(k) ELSE 0) + WeightSum2(n, k + 1)

\* C16: for every 16-bit n the magnitude of decodeTemperature(n) is the sum
\* of the weights of the bits set among bits 7 .. 14, so that twice the
\* magnitude is (n >> 7) mod 256; the value is negative exactly when bit 15
\* is set and the magnitude is not zero; bits 0 .. 6 do not matter; bit 7
\* alone gives 0.5 and bits 7 .. 15 all set give -127.5.
C16_DecodeTemperature ==
    raw >= 0
       => /\ Magnitude2 = WeightSum2(raw, 7)
          /\ Magnitude2 = (raw \div 128) % 256
          /\ (halfDegrees < 0) <=> ((raw \div 32768) % 2 = 1 /\ Magnitude2 # 0)
          /\ halfDegrees = decodeTemperature(raw - (raw % 128))
          /\ raw = 128 => halfDegrees = 1
          /\ raw = 65408 => halfDegrees = -255

\* C16 witness: the value with bits 7 .. 15 set and bits 0 .. 6 set as well
\* was decoded to -127.5.
C16_Witness == raw = 65535 /\ halfDegrees = -255


(***************************************************************************)
(* Claims about the query by score.                                        *)
(***************************************************************************)
\* The stored ticks of the sensor whose rank is within start and end.
StoredWithin(sensorID, start, end) ==
    {unmarshalTickJSON(e.member) : e \in
        {f \in TicksAt(sensorID) :
            /\ start <= rank(unmarshalTickJSON(f.member))
            /\ rank(unmarshalTickJSON(f.member)) <= end}}

\* No tick of the sequence has an earlier timestamp than one before it.
NonDecreasing(ticks) ==
    \A i, j \in 1..Len(ticks) : i < j => ~Before(ticks[j].Datetime, ticks[i].Datetime)

\* C17: findTicksByScore(sensorID, start, end) returns exactly the stored
\* ticks of that sensor whose rank r satisfies start <= r <= end, each once,
\* in non-decreasing timestamp order, and no tick of another sensor.
C17_RangeQuery ==
    [][\A s \in ScoreSensors, r \in ScoreRanges :
          findTicksByScore(s, r[1], r[2])
              => /\ qres'.err = "nil"
                 /\ {qres'.Ticks[k] : k \in 1..Len(qres'.Ticks)}
                        = StoredWithin(s, r[1], r[2])
                 /\ Len(qres'.Ticks) = Cardinality(StoredWithin(s, r[1], r[2]))
                 /\ \A k \in 1..Len(qres'.Ticks) :
                        FormatInt(qres'.Ticks[k].SensorID) = s
                 /\ NonDecreasing(qres'.Ticks)]_vars


(***************************************************************************)
(* Claims about what the store keeps.                                      *)
(***************************************************************************)
\* Every set of the family holds after the step what it held before.
FamilyGrows(before, after) ==
    \A k \in DOMAIN before : k \in DOMAIN after /\ before[k] \subseteq after[k]

HasStoredData(id) == id \in controllers \/ HashOf(id) # {}

\* The controller was never registered and never given a label or a token.
NeverRegistered(id) ==
    /\ id \notin controllers
    /\ ~HEXISTS(HashOf(id), "label")
    /\ ~HEXISTS(HashOf(id), "token")

\* C20: getController(id) (getController of the HTTP API, loadCoordinator of
\* the storage layer) returns 'absent' for every id that was never
\* registered and never given a label or a token, and returns a controller
\* only for an id that has stored controller data.
C20_AbsentUnlessStored ==
    [][\A id \in Coordinators :
          (getController(id) \/ loadCoordinator(id))
              => /\ NeverRegistered(id) => loaded'.kind = "absent"
                 /\ loaded'.kind = "record" => HasStoredData(id)]_vars


(***************************************************************************)
(* Claims about the operational log.                                       *)
(***************************************************************************)
\* No log write is in progress: every writer has ended, or the process has.
NoLogWriteInProgress == crashed \/ \A w \in LogWriters : lpc[w] = "none"

\* The list holds the n most recently pushed entries, the newest first.
HoldsNewest(n) ==
    /\ Len(logs) = n
    /\ \A k \in 1..Len(logs) : logs[k] = pushed - k + 1

\* The list is bounded to the TrimStop + 1 most recent entries.
Bounded ==
    HoldsNewest(IF pushed < TrimStop + 1 THEN pushed ELSE TrimStop + 1)

FailsAtStoreCall(c) == pc[c] \in StoreCalls /\ pc'[c] \notin StoreCalls \cup {"loop"}

\* C21: a store error in any store call made while processing a record (the
\* tick append, the association lookup, any of the three directory writes)
\* is returned from ProcessTicks as a store error, the failed call is not
\* retried, and no later record of the batch is processed: the failing step
\* writes nothing and ends ProcessTicks with (0, StoreError), and from then
\* on the connection makes no store call and changes nothing.
C21_StoreErrorAborts ==
    [][\A c \in Conns :
          /\ (StoreError(c) \/ FailsAtStoreCall(c))
                 => /\ pc'[c] = "done"
                    /\ ret'[c] = [count |-> 0, err |-> "StoreError"]
                    /\ store' = store
                    /\ idx'[c] = idx[c]
          /\ ret[c].err = "StoreError"
                 => /\ pc'[c] = "done" /\ ret'[c] = ret[c]
                    /\ idx'[c] = idx[c] /\ processedCount'[c] = processedCount[c]
                    /\ store' = store]_vars

\* The first record of a batch of three was processed, the second was
\* appended and the write of its association failed, and the third was
\* never taken up: two ticks are stored and the association is still the
\* default the first record left.
C21_Witness ==
    /\ pc["c1"] = "done"
    /\ ret["c1"] = [count |-> 0, err |-> "StoreError"]
    /\ segs["c1"][1] = RecFirst /\ segs["c1"][2] = RecSecondHint7
    /\ segs["c1"][3] = RecThirdText
    /\ idx["c1"] = 2
    /\ processedCount["c1"] = 1
    /\ count(42) = 2
    /\ <<"7">> \in controllers
    /\ HGET(sensorToController, <<"4", "2">>) = DefaultController


(***************************************************************************)
(* Claims about concurrent connections.                                    *)
(***************************************************************************)
\* The ticks of the records a connection was sent.
BatchTicks(c) ==
    {NewTick(segs[c][k]).tick : k \in {j \in 1..Len(segs[c]) : Len(segs[c][j]) > 0}}

\* The distinct ticks of both batches for a sensor, as entries of its sorted
\* set.
UnionOfBatches(s) ==
    {[score |-> rank(t), member |-> Marshal(t)] :
        t \in {u \in BatchTicks("c1") \cup BatchTicks("c2") : u.SensorID = s}}

\* The sorted set of a sensor after the records of a list were appended to
\* it one after the other.
RECURSIVE AppendedInTurn(_, _, _)
AppendedInTurn(zs, list, s) ==
    IF Len(list) = 0 THEN zs
    ELSE LET t == NewTick(list[1]).tick
         IN  AppendedInTurn(IF Len(list[1]) > 0 /\ t.SensorID = s
                            THEN ZADD(zs, rank(t), Marshal(t)) ELSE zs,
                            Tail(list), s)

BothCompleted ==
    \A c \in Conns : pc[c] = "done" /\ ret[c].err = "nil"

\* C22: concurrent appends are order-independent: once the batches of two
\* connections have both completed without error, in whatever interleaving
\* of their store calls, the sorted set of every sensor is the union of the
\* distinct ticks of both batches, which is what running the batches one
\* after the other gives, in either order.
C22_AppendsAreOrderIndependent ==
    BothCompleted
        => \A s \in {42, 5} \cup DOMAIN sensorTicks :
              /\ Ticks(s) = UnionOfBatches(s)
              /\ Ticks(s) = AppendedInTurn(AppendedInTurn({}, segs["c1"], s),
                                           segs["c2"], s)
              /\ Ticks(s) = AppendedInTurn(AppendedInTurn({}, segs["c2"], s),
                                           segs["c1"], s)

\* Both connections have completed: the first sent two ticks of sensor 42
\* of the same second, the second sent one of them again; the sensor holds
\* two ticks.
C22_Witness ==
    /\ BothCompleted
    /\ segs["c1"][1] = RecFirst /\ segs["c1"][2] = RecFirstOther
    /\ segs["c2"][1] = RecFirstHint9
    /\ ret["c1"].count = 2 /\ ret["c2"].count = 1
    /\ count(42) = 2

\* C24: processing a tick without a controller hint never changes an
\* association that is already stored for its sensor: in every interleaving
\* of the connections, the write of the association by a tick that carried
\* no hint leaves a stored association of its sensor as it is, so that an
\* association H set by a hinted tick is still H when a hint-less tick that
\* completes afterwards has completed.
C24_HintlessKeepsAssociation ==
    [][\A c \in Conns :
          (/\ processTick_HSET(c)
           /\ rule[c] \in {"default", "stored"}
           /\ findCoordinatorIDBySensorID(SensorOf(c)) # <<>>)
             => findCoordinatorIDBySensorID(SensorOf(c))'
                    = findCoordinatorIDBySensorID(SensorOf(c))]_vars

\* No connection is between the first and the last store call of a record,
\* and no store call has failed.
Quiescent ==
    \A c \in Conns : pc[c] \notin StoreCalls /\ ret[c].err # "StoreError"

C26_PageWithinTotal ==
    (qpc = "done" /\ qarg.op = "FindTicks" /\ qres.err = "nil")
        => /\ Len(qres.Ticks) <= qres.Total
           /\ (qarg.startIndex = 0 /\ qarg.stopIndex = -1)
                  => Len(qres.Ticks) = qres.Total

\* C27: every tick that was accepted and stored is readable: once
\* ProcessTicks has returned without error, FindTicks over any index range
\* of any sensor returns without error.
C27_StoredTicksAreReadable ==
    [][(/\ FindTicks_ZREVRANGE
        /\ pc["c1"] = "done" /\ ret["c1"].err = "nil")
          => qres'.err = "nil"]_vars

====
